---- MODULE Spec2Model ----
(***************************************************************************)
(* A model of the example checker: the sidecar type resolver               *)
(* (schema-loader.ts), the value normalizer (value-normalizer.ts) and the  *)
(* validator (validator.ts).                                               *)
(*                                                                         *)
(* A JavaScript string is a sequence of one-character strings, so that     *)
(* trimming, quoting, comments, separators and `${{ ... }}` placeholders    *)
(* are computed character by character as the code's regular expressions   *)
(* compute them.  A JavaScript object is a record; an absent key is an     *)
(* absent field.                                                           *)
(***************************************************************************)
EXTENDS Integers, Sequences, FiniteSets, TLC

(***************************************************************************)
(* Bounds of the model.                                                    *)
(***************************************************************************)
\* Every string over Alphabet of at most this length is a `with` value.
MaxLen == 3

(***************************************************************************)
(* Strings.                                                                *)
(***************************************************************************)
Chars(s) == [i \in 1..Len(s) |-> SubSeq(s, i, i)]

Min(S) == CHOOSE x \in S : \A y \in S : x <= y

Max(S) == CHOOSE x \in S : \A y \in S : x >= y

\* The characters the regular expression class \s matches.
Spaces == {" ", "\t", "\n", "\r"}

IsSpace(c) == c \in Spaces

\* The characters the regular expression `.` does not match.
IsLineTerminator(c) == c \in {"\n", "\r"}

Digits == {"0", "1", "2", "3", "4", "5", "6", "7", "8", "9"}

HexDigits == Digits \cup {"a", "b", "c", "d", "e", "f", "A", "B", "C", "D", "E", "F"}

OctalDigits == {"0", "1", "2", "3", "4", "5", "6", "7"}

LowerLetters ==
    {"a", "b", "c", "d", "e", "f", "g", "h", "i", "j", "k", "l", "m",
     "n", "o", "p", "q", "r", "s", "t", "u", "v", "w", "x", "y", "z"}

UpperToLower ==
    [c \in {"A", "B", "C", "D", "E", "F", "G", "H", "I", "J", "K", "L", "M",
            "N", "O", "P", "Q", "R", "S", "T", "U", "V", "W", "X", "Y", "Z"} |->
        CASE c = "A" -> "a" [] c = "B" -> "b" [] c = "C" -> "c" [] c = "D" -> "d"
          [] c = "E" -> "e" [] c = "F" -> "f" [] c = "G" -> "g" [] c = "H" -> "h"
          [] c = "I" -> "i" [] c = "J" -> "j" [] c = "K" -> "k" [] c = "L" -> "l"
          [] c = "M" -> "m" [] c = "N" -> "n" [] c = "O" -> "o" [] c = "P" -> "p"
          [] c = "Q" -> "q" [] c = "R" -> "r" [] c = "S" -> "s" [] c = "T" -> "t"
          [] c = "U" -> "u" [] c = "V" -> "v" [] c = "W" -> "w" [] c = "X" -> "x"
          [] c = "Y" -> "y" [] c = "Z" -> "z"]

\* String.prototype.toLowerCase
ToLowerCase(s) ==
    [i \in 1..Len(s) |-> IF s[i] \in DOMAIN UpperToLower THEN UpperToLower[s[i]] ELSE s[i]]

\* String.prototype.trim
Trim(s) ==
    LET idx == {i \in 1..Len(s) : ~IsSpace(s[i])}
    IN  IF idx = {} THEN <<>> ELSE SubSeq(s, Min(idx), Max(idx))

\* s.slice(n): the string without its first n characters
SliceFrom(s, n) == IF n >= Len(s) THEN <<>> ELSE SubSeq(s, n + 1, Len(s))

\* s.split(sep) for a one-character separator: the pieces between its occurrences
SplitOn(s, seps) ==
    LET cuts == {i \in 1..Len(s) : s[i] \in seps}
        n == Cardinality(cuts)
        \* the k-th cut, with 0 before the first piece and Len(s)+1 after the last
        cut(k) == IF k = 0 THEN 0
                  ELSE IF k = n + 1 THEN Len(s) + 1
                  ELSE CHOOSE i \in cuts : Cardinality({j \in cuts : j < i}) = k - 1
    IN  [k \in 1..(n + 1) |-> SubSeq(s, cut(k - 1) + 1, cut(k) - 1)]

\* parts.join(sep)
RECURSIVE Join(_, _)
Join(parts, sep) ==
    IF parts = <<>> THEN <<>>
    ELSE IF Len(parts) = 1 THEN parts[1]
    ELSE parts[1] \o sep \o Join(Tail(parts), sep)

\* xs.filter(keep), for a set of kept indices
RECURSIVE FilterIdx(_, _)
FilterIdx(xs, keep) ==
    IF xs = <<>> THEN <<>>
    ELSE LET n == Len(xs)
             rest == FilterIdx(SubSeq(xs, 1, n - 1), keep)
         IN  IF n \in keep THEN Append(rest, xs[n]) ELSE rest

\* All strings over the set of characters cs of length at most n
RECURSIVE StringsUpTo(_, _)
StringsUpTo(cs, n) ==
    IF n = 0 THEN {<<>>}
    ELSE LET shorter == StringsUpTo(cs, n - 1)
         IN  shorter \cup {Append(s, c) : s \in {t \in shorter : Len(t) = n - 1}, c \in cs}

(***************************************************************************)
(* JavaScript values as the YAML parser and the tolerant scanner hand them *)
(* to the validator: a value has a type (typeof) and a text (String(v)).   *)
(***************************************************************************)
StringValue(s) == [t |-> "string", s |-> s]

BooleanValue(b) == [t |-> "boolean", s |-> IF b THEN Chars("true") ELSE Chars("false")]

NumberValue(s) == [t |-> "number", s |-> s]

NullValue == [t |-> "null", s |-> Chars("null")]

\* A `string | null` result
Null == [isNull |-> TRUE, str |-> <<>>]

NotNull(s) == [isNull |-> FALSE, str |-> s]

(***************************************************************************)
(* value-normalizer.ts: expressions.                                       *)
(***************************************************************************)
ExprOpenAt(s, i) == i + 2 <= Len(s) /\ s[i] = "$" /\ s[i + 1] = "{" /\ s[i + 2] = "{"

ExprCloseAt(s, j) == j + 1 <= Len(s) /\ s[j] = "}" /\ s[j + 1] = "}"

\* The positions at which `}}` can end a match of /\$\{\{(.*?)\}\}/ that opens at i
ExprEnds(s, i) ==
    {j \in (i + 3)..(Len(s) - 1) :
        /\ ExprCloseAt(s, j)
        /\ \A k \in (i + 3)..(j - 1) : ~IsLineTerminator(s[k])}

\* The positions at or after `from` where /\$\{\{(.*?)\}\}/ matches
ExprStarts(s, from) == {i \in from..Len(s) : ExprOpenAt(s, i) /\ ExprEnds(s, i) # {}}

\* /\$\{\{.*?\}\}/.test(value)
containsExpression(s) == ExprStarts(s, 1) # {}

\* (?:[^']|'')* : every quote of the body is one of a pair
RECURSIVE QuotesPaired(_)
QuotesPaired(m) ==
    IF m = <<>> THEN TRUE
    ELSE IF m[1] # "'" THEN QuotesPaired(Tail(m))
    ELSE Len(m) >= 2 /\ m[2] = "'" /\ QuotesPaired(SliceFrom(m, 2))

\* /^'(?:[^']|'')*'$/.test(expression)
isSingleQuoted(e) ==
    /\ Len(e) >= 2
    /\ e[1] = "'"
    /\ e[Len(e)] = "'"
    /\ QuotesPaired(SubSeq(e, 2, Len(e) - 1))

AllIn(s, cs) == \A i \in 1..Len(s) : s[i] \in cs

\* (?:\d+\.?\d*|\.\d+)
IsMantissa(m) ==
    /\ AllIn(m, Digits \cup {"."})
    /\ Cardinality({i \in 1..Len(m) : m[i] = "."}) <= 1
    /\ \E i \in 1..Len(m) : m[i] \in Digits

\* [+-]?\d+
IsExponentDigits(x) ==
    LET d == IF x # <<>> /\ x[1] \in {"+", "-"} THEN Tail(x) ELSE x
    IN  d # <<>> /\ AllIn(d, Digits)

\* (?:\d+\.?\d*|\.\d+)(?:[eE][+-]?\d+)?
IsDecimal(b) ==
    LET es == {i \in 1..Len(b) : b[i] \in {"e", "E"}}
    IN  IF es = {} THEN IsMantissa(b)
        ELSE /\ IsMantissa(SubSeq(b, 1, Min(es) - 1))
             /\ IsExponentDigits(SliceFrom(b, Min(es)))

IsPrefixed(b, letters, digits) ==
    Len(b) >= 3 /\ b[1] = "0" /\ b[2] \in letters /\ AllIn(SliceFrom(b, 2), digits)

\* /^[+-]?(?:0x[0-9a-fA-F]+|0o[0-7]+|(?:\d+\.?\d*|\.\d+)(?:[eE][+-]?\d+)?)$/.test(expression)
isNumber(e) ==
    LET b == IF e # <<>> /\ e[1] \in {"+", "-"} THEN Tail(e) ELSE e
    IN  \/ IsPrefixed(b, {"x"}, HexDigits)
        \/ IsPrefixed(b, {"o"}, OctalDigits)
        \/ IsDecimal(b)

\* A faulty variant: the keywords in any case
isKeywordInAnyCase(e) ==
    ToLowerCase(e) \in
        {Chars("true"), Chars("false"), Chars("null"), Chars("nan"), Chars("infinity")}

\* /^(true|false|null|NaN|Infinity)$/.test(expression)
isKeyword(e) ==
    e \in {Chars("true"), Chars("false"), Chars("null"), Chars("NaN"), Chars("Infinity")}

isLiteral(e) == isSingleQuoted(e) \/ isNumber(e) \/ isKeyword(e)

\* The exec loop of containsNonLiteralExpression, resumed at `from`
RECURSIVE NonLiteralFrom(_, _)
NonLiteralFrom(s, from) ==
    LET starts == ExprStarts(s, from)
    IN  IF starts = {} THEN FALSE
        ELSE LET i == Min(starts)
                 j == Min(ExprEnds(s, i))
                 expression == Trim(SubSeq(s, i + 3, j - 1))
             IN  IF ~isLiteral(expression) THEN TRUE ELSE NonLiteralFrom(s, j + 2)

containsNonLiteralExpression(s) == NonLiteralFrom(s, 1)

(***************************************************************************)
(* value-normalizer.ts: normalizeValue and its helpers.                    *)
(***************************************************************************)
removeEnclosingQuotes(str) ==
    IF Len(str) >= 2 /\ str[1] = "\"" /\ str[Len(str)] = "\""
    THEN SubSeq(str, 2, Len(str) - 1)
    ELSE IF Len(str) >= 2 /\ str[1] = "'" /\ str[Len(str)] = "'"
    THEN SubSeq(str, 2, Len(str) - 1)
    ELSE str

\* The lengths k of a first group of /^(.*?)\s+#.*$/ with which the pattern matches
CommentCuts(str) ==
    {k \in 0..Len(str) :
        /\ \A i \in 1..k : ~IsLineTerminator(str[i])
        /\ \E h \in (k + 2)..Len(str) :
              /\ str[h] = "#"
              /\ \A i \in (k + 1)..(h - 1) : IsSpace(str[i])
              /\ \A i \in (h + 1)..Len(str) : ~IsLineTerminator(str[i])}

removeTrailingComment(str) ==
    IF CommentCuts(str) # {}
    THEN Trim(SubSeq(str, 1, Min(CommentCuts(str))))
    ELSE str

\* line.match(/^\s*/)[0].length
LeadingSpaces(line) ==
    LET idx == {i \in 1..Len(line) : ~IsSpace(line[i])}
    IN  IF idx = {} THEN Len(line) ELSE Min(idx) - 1

unindent(str) ==
    LET lines == SplitOn(str, {"\n"})
        content == {i \in 1..Len(lines) : Trim(lines[i]) # <<>>}
    IN  IF content = {} THEN str
        ELSE LET minIndent == Min({LeadingSpaces(lines[i]) : i \in content})
             IN  Join([i \in 1..Len(lines) |->
                          IF Trim(lines[i]) = <<>> THEN <<>>
                          ELSE SliceFrom(lines[i], minIndent)],
                      <<"\n">>)

\* str.replace(/[class]+/g, ' ') for a set of characters
ReplaceRuns(str, class) ==
    FilterIdx([i \in 1..Len(str) |-> IF str[i] \in class THEN " " ELSE str[i]],
              {i \in 1..Len(str) : str[i] \notin class \/ i = 1 \/ str[i - 1] \notin class})

normalizeValue(value) ==
    IF value.t = "null" THEN Null
    ELSE IF containsNonLiteralExpression(value.s) THEN Null
    ELSE LET trimmed == Trim(value.s)
             unquoted == removeEnclosingQuotes(trimmed)
             uncommented == removeTrailingComment(unquoted)
             unindented == unindent(uncommented)
         IN  NotNull(Trim(ReplaceRuns(ReplaceRuns(unindented, {"\n"}), Spaces)))

TruthyValues == {Chars("true"), Chars("yes"), Chars("y"), Chars("1"), Chars("on")}

\* A faulty variant of FalsyValues: the empty string is left out
FalsyValuesWithoutEmpty == {Chars("false"), Chars("no"), Chars("n"), Chars("0"), Chars("off")}

FalsyValues == {Chars("false"), Chars("no"), Chars("n"), Chars("0"), Chars("off"), <<>>}

\* `boolean | null`, as "true", "false" or "null"
normalizeBoolean(value) ==
    IF value.t = "null" THEN "null"
    ELSE IF value.t = "boolean" THEN (IF value.s = Chars("true") THEN "true" ELSE "false")
    ELSE LET str == normalizeValue(value)
             lower == ToLowerCase(str.str)
         IN  IF str.isNull THEN "null"
             ELSE IF lower \in TruthyValues THEN "true"
             ELSE IF lower \in FalsyValues THEN "false"
             ELSE "null"

\* Number(str) is not NaN: the StringNumericLiteral grammar
IsNumeric(str) ==
    LET t == Trim(str)
        b == IF t # <<>> /\ t[1] \in {"+", "-"} THEN Tail(t) ELSE t
    IN  \/ t = <<>>
        \/ b = Chars("Infinity")
        \/ IsDecimal(b)
        \/ IsPrefixed(t, {"x", "X"}, HexDigits)
        \/ IsPrefixed(t, {"o", "O"}, OctalDigits)
        \/ IsPrefixed(t, {"b", "B"}, {"0", "1"})

\* `number | null`: TRUE when the result is null
normalizeNumberIsNull(value) ==
    IF value.t = "null" THEN TRUE
    ELSE IF value.t = "number" THEN FALSE
    ELSE LET str == normalizeValue(value)
         IN  str.isNull \/ ~IsNumeric(str.str)

(***************************************************************************)
(* value-normalizer.ts: splitMultiValue.                                   *)
(***************************************************************************)
newline == Chars("newline")

backslashN == <<"\\", "n">>

MatchesAt(s, i, sep) == Len(sep) >= 1 /\ i + Len(sep) - 1 <= Len(s) /\ SubSeq(s, i, i + Len(sep) - 1) = sep

\* str.split(new RegExp(`(${escapedSeparators.join('|')})`)) without the captured separators
RECURSIVE SplitOnAny(_, _)
SplitOnAny(s, separators) ==
    LET hits == {i \in 1..Len(s) : \E k \in 1..Len(separators) : MatchesAt(s, i, separators[k])}
    IN  \* no separators: the pattern is (), which matches between any two characters
        IF separators = <<>> THEN [i \in 1..Len(s) |-> <<s[i]>>]
        ELSE IF hits = {} THEN <<s>>
        ELSE LET i == Min(hits)
                 k == Min({n \in 1..Len(separators) : MatchesAt(s, i, separators[n])})
             IN  <<SubSeq(s, 1, i - 1)>> \o SplitOnAny(SliceFrom(s, i - 1 + Len(separators[k])), separators)

NonEmptyItems(items) ==
    FilterIdx(items, {i \in 1..Len(items) : Len(items[i]) > 0})

\* The items of a value that holds no non-literal expression
SplitLiteral(value, separators) ==
    LET str == removeEnclosingQuotes(Trim(value.s))
        hasNewlineSeparator ==
            \E k \in 1..Len(separators) : separators[k] = newline \/ separators[k] = backslashN
        pieces == IF hasNewlineSeparator THEN SplitOn(str, {"\n"})
                  ELSE SplitOnAny(str, separators)
    IN  [isNull |-> FALSE,
         items |-> NonEmptyItems([i \in 1..Len(pieces) |->
                                     removeTrailingComment(Trim(pieces[i]))])]

\* A faulty variant of splitMultiValue: a value with a non-literal expression is split too
splitMultiValueUnguarded(value, separators) ==
    IF value.t = "null" THEN [isNull |-> TRUE, items |-> <<>>]
    ELSE SplitLiteral(value, separators)

\* A `string[] | null` result
splitMultiValue(value, separators) ==
    IF value.t = "null" THEN [isNull |-> TRUE, items |-> <<>>]
    ELSE IF containsNonLiteralExpression(value.s) THEN [isNull |-> TRUE, items |-> <<>>]
    ELSE SplitLiteral(value, separators)

(***************************************************************************)
(* schema-loader.ts.  A raw definition read from the sidecar file is a     *)
(* record with the keys the YAML gave it, among type, match, options,      *)
(* separators and items.  A value that is "a string or an array" is tagged *)
(* [str |-> s] or [arr |-> <<...>>]; an option is Plain(s) or a record     *)
(* with a value and, possibly, alternatives.                               *)
(***************************************************************************)
Has(obj, key) == key \in DOMAIN obj

\* {}
EmptyObject == [k \in {} |-> TRUE]

BASE_TYPES == {Chars("boolean"), Chars("number"), Chars("string"), Chars("choice"), Chars("any")}

Plain(s) == [plain |-> s]

OneString(s) == [str |-> s]

Array(xs) == [arr |-> xs]

\* String(value) of a scalar
convertToString(value) == value.s

\* The alternatives of a validated option, as an array of strings
NormalizeAlternatives(alternatives) ==
    IF Has(alternatives, "arr")
    THEN [i \in 1..Len(alternatives.arr) |-> convertToString(alternatives.arr[i])]
    ELSE <<convertToString(alternatives.one)>>

ValidateOption(opt) ==
    IF Has(opt, "plain") THEN opt
    ELSE IF Has(opt, "alternatives")
    THEN [value |-> opt.value, alternatives |-> NormalizeAlternatives(opt.alternatives)]
    ELSE [value |-> opt.value]

\* A function result or a thrown Error
Throw(message) == [throws |-> TRUE, message |-> message]

Return(v) == [throws |-> FALSE, value |-> v]

RECURSIVE validateTypeDefinition(_)
validateTypeDefinition(typeDef) ==
    LET type == ToLowerCase(IF Has(typeDef, "type") /\ typeDef.type # <<>>
                            THEN typeDef.type ELSE Chars("string"))
        isBaseType == type \in BASE_TYPES
        hasMatch == Has(typeDef, "match") /\ typeDef.match # <<>>
        hasOptions == Has(typeDef, "options")
        options == [i \in 1..Len(typeDef.options) |-> ValidateOption(typeDef.options[i])]
        hasSeparators ==
            /\ Has(typeDef, "separators")
            /\ ~(Has(typeDef.separators, "str") /\ typeDef.separators.str = <<>>)
        hasItems == Has(typeDef, "items")
        items == validateTypeDefinition(typeDef.items)
        result ==
            [type |-> type]
            @@ (IF hasMatch THEN [match |-> typeDef.match] ELSE EmptyObject)
            @@ (IF hasOptions THEN [options |-> options] ELSE EmptyObject)
            @@ (IF hasSeparators THEN [separators |-> typeDef.separators]
                ELSE IF hasItems THEN [separators |-> OneString(Chars("newline"))]
                ELSE EmptyObject)
            @@ (IF hasItems THEN [items |-> items.value] ELSE EmptyObject)
    IN  IF hasMatch /\ isBaseType /\ type # Chars("string")
        THEN Throw("match can only be used with string type")
        ELSE IF hasOptions /\ isBaseType /\ type # Chars("choice")
        THEN Throw("options can only be used with choice type")
        ELSE IF isBaseType /\ type = Chars("choice") /\ (~hasOptions \/ Len(options) = 0)
        THEN Throw("choice type requires options array")
        ELSE IF hasItems /\ items.throws
        THEN items
        ELSE Return(result)

\* The first throw of the results of a section, or the values of all
FirstThrow(results) ==
    LET thrown == {n \in DOMAIN results : results[n].throws}
    IN  IF thrown # {} THEN results[CHOOSE n \in thrown : TRUE]
        ELSE Return([n \in DOMAIN results |-> results[n].value])

\* The entries of a sidecar section, each validated; the first throw wins
ValidateSection(section) ==
    FirstThrow([n \in DOMAIN section |->
                   IF Has(section[n], "ref") THEN Return(section[n])
                   ELSE validateTypeDefinition(section[n])])

\* A section of the sidecar file; an absent section has no entries
Section(schema, name) == IF Has(schema, name) THEN schema[name] ELSE EmptyObject

\* The validated schema from its validated sections
ValidatedSchema(types, inputs, outputs) ==
    IF types.throws THEN types
    ELSE IF inputs.throws THEN inputs
    ELSE IF outputs.throws THEN outputs
    ELSE Return([types |-> types.value, inputs |-> inputs.value, outputs |-> outputs.value])

validateSchemaDefinition(schema) ==
    ValidatedSchema(ValidateSection(Section(schema, "types")),
                    ValidateSection(Section(schema, "inputs")),
                    ValidateSection(Section(schema, "outputs")))

(***************************************************************************)
(* Regular expressions.  A RegExp object has a source, flags and the       *)
(* mutable lastIndex that test() reads and writes under the g flag.  The   *)
(* sources the model interprets are the anchored character-class patterns  *)
(* ^[...]+$ and ^[...]*$ that the schemas of the tests use.                *)
(***************************************************************************)
\* The position of the last `/` of /source/flags notation, or 0
SlashNotationEnd(pattern) ==
    LET flagChars == {"g", "i", "m", "s", "u", "v", "y"}
        ends == {p \in 3..Len(pattern) :
                    /\ pattern[1] = "/"
                    /\ pattern[p] = "/"
                    /\ \A i \in (p + 1)..Len(pattern) : pattern[i] \in flagChars}
    IN  IF ends = {} THEN 0 ELSE Max(ends)

compileRegex(pattern) ==
    LET p == SlashNotationEnd(pattern)
    IN  IF p > 0
        THEN [source |-> SubSeq(pattern, 2, p - 1), flags |-> SliceFrom(pattern, p), lastIndex |-> 0]
        ELSE [source |-> pattern, flags |-> <<>>, lastIndex |-> 0]

UpperLetters == DOMAIN UpperToLower

\* The characters of a class body such as a-z0-9-
RECURSIVE ClassChars(_)
ClassChars(body) ==
    IF body = <<>> THEN {}
    ELSE IF Len(body) >= 3 /\ SubSeq(body, 1, 3) = Chars("a-z")
    THEN LowerLetters \cup ClassChars(SliceFrom(body, 3))
    ELSE IF Len(body) >= 3 /\ SubSeq(body, 1, 3) = Chars("A-Z")
    THEN UpperLetters \cup ClassChars(SliceFrom(body, 3))
    ELSE IF Len(body) >= 3 /\ SubSeq(body, 1, 3) = Chars("0-9")
    THEN Digits \cup ClassChars(SliceFrom(body, 3))
    ELSE {body[1]} \cup ClassChars(Tail(body))

\* Whether the whole of str matches source, one of ^[...]+$ and ^[...]*$
SourceMatches(source, ignoreCase, str) ==
    LET n == Len(source)
        class == ClassChars(SubSeq(source, 3, n - 3))
        inClass(c) == \/ c \in class
                      \/ ignoreCase /\ \E d \in class : ToLowerCase(<<c>>) = ToLowerCase(<<d>>)
    IN  /\ \A i \in 1..Len(str) : inClass(str[i])
        /\ source[n - 1] = "+" => Len(str) >= 1

HasFlag(re, f) == \E i \in 1..Len(re.flags) : re.flags[i] = f

\* pattern.test(str): the result and the pattern object afterwards
RegExpTest(re, str) ==
    LET stateful == HasFlag(re, "g") \/ HasFlag(re, "y")
        start == IF stateful THEN re.lastIndex ELSE 0
        found == start = 0 /\ SourceMatches(re.source, HasFlag(re, "i"), str)
    IN  [result |-> found,
         pattern |-> IF stateful
                     THEN [re EXCEPT !.lastIndex = IF found THEN Len(str) ELSE 0]
                     ELSE re]

\* A faulty variant of validateMatch: the empty string is exempt from the pattern
validateMatchExemptEmpty(value, pattern) ==
    IF value = <<>> THEN [result |-> TRUE, pattern |-> pattern]
    ELSE RegExpTest(pattern, value)

validateMatch(value, pattern) == RegExpTest(pattern, value)

(***************************************************************************)
(* schema-loader.ts: resolveTypeDefinition.                                *)
(***************************************************************************)
\* A faulty variant of FlattenOptions: the alternatives of an option come before
\* its value
RECURSIVE FlattenOptionsAlternativesFirst(_)
FlattenOptionsAlternativesFirst(options) ==
    IF options = <<>> THEN <<>>
    ELSE LET opt == options[1]
         IN  (IF Has(opt, "plain") THEN <<opt.plain>>
              ELSE IF Has(opt, "alternatives") THEN opt.alternatives \o <<opt.value>>
              ELSE <<opt.value>>)
             \o FlattenOptionsAlternativesFirst(Tail(options))

\* The options of a definition flattened: each value, then its alternatives
RECURSIVE FlattenOptions(_)
FlattenOptions(options) ==
    IF options = <<>> THEN <<>>
    ELSE LET opt == options[1]
         IN  (IF Has(opt, "plain") THEN <<opt.plain>>
              ELSE IF Has(opt, "alternatives") THEN <<opt.value>> \o opt.alternatives
              ELSE <<opt.value>>)
             \o FlattenOptions(Tail(options))

NormalizeSeparators(separators) ==
    IF Has(separators, "str") THEN <<separators.str>> ELSE separators.arr

\* The fields a definition sets on a descriptor, each in its resolved form; items
\* is the resolution of the definition's items
OwnFields(typeDef, items) ==
    (IF Has(typeDef, "items") THEN [items |-> items.value] ELSE EmptyObject)
    @@ (IF Has(typeDef, "separators")
        THEN [separators |-> NormalizeSeparators(typeDef.separators)] ELSE EmptyObject)
    @@ (IF Has(typeDef, "options")
        THEN [options |-> FlattenOptions(typeDef.options)] ELSE EmptyObject)
    @@ (IF Has(typeDef, "match")
        THEN [match |-> compileRegex(typeDef.match)] ELSE EmptyObject)

\* The fields of the override replace those of the resolved base
ApplyOverrides(own, resolvedBase) == own @@ resolvedBase

\* The names every object inherits from Object.prototype: customTypes[name] is
\* neither undefined nor a definition for them
ObjectPrototypeKeys ==
    {Chars("constructor"), Chars("__proto__"), Chars("toString"), Chars("valueOf"),
     Chars("hasOwnProperty")}

\* def is [ref |-> name] for a bare string, or a definition object
RECURSIVE resolveTypeDefinition(_, _)
resolveTypeDefinition(def, customTypes) ==
    LET isRef == Has(def, "ref")
        name == IF isRef THEN def.ref ELSE def.type
        isCustom == isRef \/ def.type \notin BASE_TYPES
        unknown == isCustom /\ name \notin DOMAIN customTypes \cup ObjectPrototypeKeys
        \* baseTypeDef is a member of Object.prototype, its type is undefined and the
        \* recursive call reads the type of undefined
        inherited == isCustom /\ name \in ObjectPrototypeKeys \ DOMAIN customTypes
        baseTypeDef == IF isCustom THEN customTypes[name] ELSE def
        overrides == IF isCustom /\ ~isRef THEN def ELSE EmptyObject
        base == IF baseTypeDef.type \notin BASE_TYPES
                THEN resolveTypeDefinition([ref |-> baseTypeDef.type], customTypes)
                ELSE Return([type |-> baseTypeDef.type])
        baseItems == resolveTypeDefinition(baseTypeDef.items, customTypes)
        overrideItems == resolveTypeDefinition(overrides.items, customTypes)
    IN  IF unknown THEN Throw("Unknown custom type")
        ELSE IF inherited THEN Throw("TypeError")
        ELSE IF base.throws THEN base
        ELSE IF Has(baseTypeDef, "items") /\ baseItems.throws THEN baseItems
        ELSE IF Has(overrides, "items") /\ overrideItems.throws THEN overrideItems
        ELSE Return(ApplyOverrides(OwnFields(overrides, overrideItems),
                                   OwnFields(baseTypeDef, baseItems) @@ base.value))

(***************************************************************************)
(* action-schema.ts: the inputs of a loaded ActionSchema.                  *)
(***************************************************************************)
\* The `items` record loadActionSchema keeps: type, options and match only
KeptItems(items) ==
    [k \in DOMAIN items \cap {"type", "options", "match"} |-> items[k]]

\* The entry loadActionSchema stores for a manifest input with a sidecar definition
ResolvedInput(required, resolvedType) ==
    [required |-> required]
    @@ [k \in DOMAIN resolvedType \cap {"type", "options", "match", "separators"} |->
           resolvedType[k]]
    @@ (IF Has(resolvedType, "items") THEN [items |-> KeptItems(resolvedType.items)]
        ELSE EmptyObject)

\* The entry loadActionSchema stores for a manifest input the sidecar does not define
ManifestInput(inputDef) ==
    [required |-> inputDef.required]
    @@ (IF Has(inputDef, "type") THEN [type |-> ToLowerCase(inputDef.type)] ELSE EmptyObject)

\* The inputs of the parsed manifest: none unless it has an `inputs` mapping
ActionInputs(action) == IF Has(action, "inputs") THEN action.inputs ELSE EmptyObject

\* The names of the outputs of the parsed manifest: none unless it has an
\* `outputs` mapping
ActionOutputs(action) == IF Has(action, "outputs") THEN action.outputs ELSE {}

\* The ActionSchema from the manifest and the resolved definitions of its inputs
ResolvedSchema(action, resolved) ==
    IF resolved.throws THEN resolved
    ELSE Return([inputs |->
                    [n \in DOMAIN ActionInputs(action) |->
                        IF n \in DOMAIN resolved.value
                        THEN ResolvedInput(ActionInputs(action)[n].required, resolved.value[n])
                        ELSE ManifestInput(ActionInputs(action)[n])],
                 outputs |-> ActionOutputs(action)])

\* loadActionSchema once the sidecar file is validated
LoadValidated(action, schemaDefinition) ==
    IF schemaDefinition.throws THEN schemaDefinition
    ELSE ResolvedSchema(action,
             FirstThrow([n \in DOMAIN ActionInputs(action) \cap DOMAIN schemaDefinition.value.inputs |->
                            resolveTypeDefinition(schemaDefinition.value.inputs[n],
                                                  schemaDefinition.value.types)]))

\* loadActionSchema, from the parsed manifest and the parsed sidecar file
loadActionSchema(action, sidecar) ==
    \* !action || typeof action !== 'object': a scalar or null; an array is an object
    IF Has(action, "scalar") THEN Throw("Invalid action.yml format")
    ELSE LoadValidated(action, validateSchemaDefinition(sidecar))

(***************************************************************************)
(* validator.ts.  A diagnostic keeps what its message shows: the input,    *)
(* the item position (0 when the message names none), the value quoted in  *)
(* the message (<<>> when it quotes none, else <<value>>), the pattern and *)
(* the option list it prints.                                              *)
(***************************************************************************)
\* `${pattern}`: /source/flags
RegExpToString(re) == <<"/">> \o re.source \o <<"/">> \o re.flags

Diagnostic(kind, inputName, item, shown, pattern, options, line) ==
    [kind |-> kind, input |-> inputName, item |-> item, shown |-> shown,
     pattern |-> pattern, options |-> options, line |-> line, column |-> 1]

\* What a validation returns: its errors, and the input's schema entry afterwards
\* (test() moves the lastIndex of a pattern compiled with the g flag)
Outcome(errors, inputSchema) == [errors |-> errors, inputSchema |-> inputSchema]

OptionErrors(kind, inputName, item, inputSchema, normalizedValue, line) ==
    IF /\ Has(inputSchema, "options")
       /\ Len(inputSchema.options) > 0
       /\ \A i \in 1..Len(inputSchema.options) : inputSchema.options[i] # normalizedValue
    THEN <<Diagnostic(kind, inputName, item, <<normalizedValue>>, <<>>,
                      inputSchema.options, line)>>
    ELSE <<>>

\* The match check and the options check of a string or choice value
StringChecks(inputName, item, inputSchema, normalizedValue, line) ==
    LET tested == validateMatch(normalizedValue, inputSchema.match)
        failed == Has(inputSchema, "match") /\ ~tested.result
        after == IF Has(inputSchema, "match")
                 THEN [inputSchema EXCEPT !.match = tested.pattern]
                 ELSE inputSchema
    IN  Outcome((IF failed
                 THEN <<Diagnostic("pattern", inputName, item,
                                   IF item = 0 THEN <<>> ELSE <<normalizedValue>>,
                                   RegExpToString(inputSchema.match), <<>>, line)>>
                 ELSE <<>>)
                \o OptionErrors("options", inputName, item, inputSchema, normalizedValue, line),
                after)

BooleanCheck(inputName, inputValue, normalizedValue, inputSchema, line) ==
    Outcome(IF normalizeBoolean(inputValue) = "null"
            THEN <<Diagnostic("boolean", inputName, 0, <<normalizedValue.str>>,
                              <<>>, <<>>, line)>>
            ELSE <<>>,
            inputSchema)

NumberCheck(inputName, inputValue, normalizedValue, inputSchema, line) ==
    Outcome(IF normalizeNumberIsNull(inputValue)
            THEN <<Diagnostic("number", inputName, 0, <<normalizedValue.str>>,
                              <<>>, <<>>, line)>>
            ELSE <<>>,
            inputSchema)

\* A faulty variant of TypedChecks: an input of type any is checked like a string
TypedChecksAnyAsString(inputName, inputValue, normalizedValue, inputSchema, line) ==
    LET type == inputSchema.type
    IN  IF type = Chars("boolean")
        THEN BooleanCheck(inputName, inputValue, normalizedValue, inputSchema, line)
        ELSE IF type = Chars("number")
        THEN NumberCheck(inputName, inputValue, normalizedValue, inputSchema, line)
        ELSE IF type = Chars("choice") \/ type = Chars("string") \/ type = Chars("any")
        THEN StringChecks(inputName, 0, inputSchema, normalizedValue.str, line)
        ELSE Outcome(<<>>, inputSchema)

\* The checks of validateSingleValueInput for an input with a type
TypedChecks(inputName, inputValue, normalizedValue, inputSchema, line) ==
    LET type == inputSchema.type
    IN  IF type = Chars("any") THEN Outcome(<<>>, inputSchema)
        ELSE IF type = Chars("boolean")
        THEN BooleanCheck(inputName, inputValue, normalizedValue, inputSchema, line)
        ELSE IF type = Chars("number")
        THEN NumberCheck(inputName, inputValue, normalizedValue, inputSchema, line)
        ELSE IF type = Chars("choice") \/ type = Chars("string")
        THEN StringChecks(inputName, 0, inputSchema, normalizedValue.str, line)
        ELSE Outcome(<<>>, inputSchema)

\* validateSingleValueInput once the value is normalized
ValidateNormalized(inputName, inputValue, normalizedValue, inputSchema, line) ==
    IF normalizedValue.isNull \/ containsExpression(inputValue.s)
    THEN Outcome(<<>>, inputSchema)
    ELSE IF Has(inputSchema, "type") /\ inputSchema.type # <<>>
    THEN TypedChecks(inputName, inputValue, normalizedValue, inputSchema, line)
    ELSE Outcome(OptionErrors("options", inputName, 0, inputSchema, normalizedValue.str, line),
                 inputSchema)

validateSingleValueInput(inputName, inputValue, inputSchema, line) ==
    ValidateNormalized(inputName, inputValue, normalizeValue(inputValue), inputSchema, line)

\* One turn of the loop of validateMultiValueInput, on item i
ValidateItem(inputName, item, i, itemSchema, line) ==
    LET type == itemSchema.type
        normalizedItem == normalizeValue(StringValue(item))
    IN  IF ~(Has(itemSchema, "type") /\ type # <<>>) THEN Outcome(<<>>, itemSchema)
        ELSE IF type = Chars("any") THEN Outcome(<<>>, itemSchema)
        ELSE IF type = Chars("boolean")
        THEN Outcome(IF normalizeBoolean(StringValue(item)) = "null"
                     THEN <<Diagnostic("boolean", inputName, i, <<item>>, <<>>, <<>>, line)>>
                     ELSE <<>>,
                     itemSchema)
        ELSE IF type = Chars("number")
        THEN Outcome(IF normalizeNumberIsNull(StringValue(item))
                     THEN <<Diagnostic("number", inputName, i, <<item>>, <<>>, <<>>, line)>>
                     ELSE <<>>,
                     itemSchema)
        ELSE IF type = Chars("choice") \/ type = Chars("string")
        THEN IF normalizedItem.isNull THEN Outcome(<<>>, itemSchema)
             ELSE StringChecks(inputName, i, itemSchema, normalizedItem.str, line)
        ELSE Outcome(<<>>, itemSchema)

\* The errors of one item followed by those of the items after it
ErrorsThen(errors, rest) == Outcome(errors \o rest.errors, rest.inputSchema)

\* The loop of validateMultiValueInput over items[i..]
RECURSIVE ValidateItemsFrom(_, _, _, _, _)
RECURSIVE ValidateItemsAfter(_, _, _, _, _)
ValidateItemsAfter(inputName, items, i, first, line) ==
    ErrorsThen(first.errors, ValidateItemsFrom(inputName, items, i + 1, first.inputSchema, line))

ValidateItemsFrom(inputName, items, i, itemSchema, line) ==
    IF i > Len(items) THEN Outcome(<<>>, itemSchema)
    ELSE ValidateItemsAfter(inputName, items, i,
                            ValidateItem(inputName, items[i], i, itemSchema, line), line)

\* The outcome of validateMultiValueInput from the outcome of its loop
ItemsChecked(inputSchema, checked) ==
    Outcome(checked.errors, [inputSchema EXCEPT !.items = checked.inputSchema])

\* validateMultiValueInput once the value is split
ValidateSplit(inputName, items, inputSchema, line) ==
    IF items.isNull THEN Outcome(<<>>, inputSchema)
    ELSE ItemsChecked(inputSchema,
                      ValidateItemsFrom(inputName, items.items, 1, inputSchema.items, line))

validateMultiValueInput(inputName, inputValue, inputSchema, line) ==
    ValidateSplit(inputName, splitMultiValue(inputValue, inputSchema.separators),
                  inputSchema, line)

\* step.withLines?.get(inputName) || blockStartLine + step.lineInBlock
EntryLine(step, inputName, blockStartLine) ==
    IF Has(step, "withLines") /\ inputName \in DOMAIN step.withLines
       /\ step.withLines[inputName] # 0
    THEN step.withLines[inputName]
    ELSE blockStartLine + step.lineInBlock

\* The result of one turn of the loop of validateStep from the outcome of the
\* validation of the entry
EntryChecked(inputName, inputs, checked) ==
    [errors |-> checked.errors,
     inputs |-> [inputs EXCEPT ![inputName] = checked.inputSchema]]

\* A faulty variant of UnknownInput: an unknown input goes unreported
UnknownInputUnreported(inputName, line) == <<>>

\* The diagnostic of validateStep for an entry that is no input of the action
UnknownInput(inputName, line) ==
    <<Diagnostic("unknown", inputName, 0, <<>>, <<>>, <<>>, line)>>

\* One turn of the loop of validateStep, on one entry of step.with
ValidateEntry(step, entry, inputs, blockStartLine) ==
    LET inputName == entry.name
        line == EntryLine(step, inputName, blockStartLine)
        inputSchema == inputs[inputName]
    IN  IF inputName \notin DOMAIN inputs
        THEN [errors |-> UnknownInput(inputName, line), inputs |-> inputs]
        ELSE IF Has(inputSchema, "items") /\ Has(inputSchema, "separators")
        THEN EntryChecked(inputName, inputs,
                          validateMultiValueInput(inputName, entry.value, inputSchema, line))
        ELSE EntryChecked(inputName, inputs,
                          validateSingleValueInput(inputName, entry.value, inputSchema, line))

\* The errors of one entry followed by those of the entries after it
EntryErrorsThen(errors, rest) == [errors |-> errors \o rest.errors, inputs |-> rest.inputs]

\* The loop of validateStep over the entries of step.with from the i-th
RECURSIVE ValidateEntriesFrom(_, _, _, _)
RECURSIVE ValidateEntriesAfter(_, _, _, _)
ValidateEntriesAfter(step, i, first, blockStartLine) ==
    EntryErrorsThen(first.errors, ValidateEntriesFrom(step, i + 1, first.inputs, blockStartLine))

ValidateEntriesFrom(step, i, inputs, blockStartLine) ==
    IF i > Len(step.with) THEN [errors |-> <<>>, inputs |-> inputs]
    ELSE ValidateEntriesAfter(step, i,
                              ValidateEntry(step, step.with[i], inputs, blockStartLine),
                              blockStartLine)

\* validateStep: its errors, and the inputs of the schema afterwards
validateStep(step, inputs, blockStartLine) ==
    IF Has(step, "with") THEN ValidateEntriesFrom(step, 1, inputs, blockStartLine)
    ELSE [errors |-> <<>>, inputs |-> inputs]

(***************************************************************************)
(* validator.ts: validateOutputReferences.                                 *)
(***************************************************************************)
\* The class [A-Za-z0-9_-]
NameChars == LowerLetters \cup UpperLetters \cup Digits \cup {"_", "-"}

\* The end of the longest run of NameChars of s that starts at i (i - 1: no run)
RunEnd(s, i) ==
    Max({j \in (i - 1)..Len(s) : \A k \in i..j : s[k] \in NameChars})

\* s.slice(i - 1, j) where the slice may reach beyond the end of s
Slice(s, i, j) == IF i > Len(s) THEN <<>> ELSE SubSeq(s, i, Min({j, Len(s)}))

\* Whether /steps\.([A-Za-z0-9_-]+)\.outputs\.([A-Za-z0-9_-]+)/ matches at position i
OutputRefAt(s, i) ==
    /\ Slice(s, i, i + 5) = Chars("steps.")
    /\ RunEnd(s, i + 6) >= i + 6
    /\ Slice(s, RunEnd(s, i + 6) + 1, RunEnd(s, i + 6) + 9) = Chars(".outputs.")
    /\ RunEnd(s, RunEnd(s, i + 6) + 10) >= RunEnd(s, i + 6) + 10

\* The matches of the exec loop of validateOutputReferences from position `from` on
RECURSIVE OutputRefsFrom(_, _)
OutputRefsFrom(s, from) ==
    LET starts == {i \in from..Len(s) : OutputRefAt(s, i)}
    IN  IF starts = {} THEN <<>>
        ELSE LET i == Min(starts)
                 idEnd == RunEnd(s, i + 6)
                 nameEnd == RunEnd(s, idEnd + 10)
             IN  <<[stepId |-> SubSeq(s, i + 6, idEnd),
                    outputName |-> SubSeq(s, idEnd + 10, nameEnd),
                    index |-> i - 1]>>
                 \o OutputRefsFrom(s, nameEnd + 1)

lineAtOffset(text, offset) ==
    1 + Cardinality({i \in 1..Min({offset, Len(text)}) : text[i] = "\n"})

\* The Map of step ids to the outputs of their schemas: a later step replaces an
\* earlier one of the same id
StepOutputs(steps, schemas) ==
    LET withId == {k \in 1..Len(steps) :
                      /\ Has(steps[k], "id")
                      /\ steps[k].id # <<>>
                      /\ steps[k].actionReference \in DOMAIN schemas}
    IN  [id \in {steps[k].id : k \in withId} |->
            schemas[steps[Max({k \in withId : steps[k].id = id})].actionReference].outputs]

\* The diagnostic for a reference to an output the schema of the step does not
\* declare; `available` is what the message prints after "Available outputs: "
UnknownOutput(outputName, stepId, outputs, line) ==
    <<[kind |-> "output", output |-> outputName, step |-> stepId,
       available |-> IF Cardinality(outputs) > 0 THEN outputs ELSE Chars("none"),
       line |-> line, column |-> 1]>>

\* A faulty variant of CheckReference: a reference to an unknown step is reported
CheckReferenceOfAnyStep(ref, stepOutputs, blockText, blockStartLine) ==
    IF ref.stepId \notin DOMAIN stepOutputs
    THEN UnknownOutput(ref.outputName, ref.stepId, {},
                       blockStartLine + lineAtOffset(blockText, ref.index) - 1)
    ELSE IF ref.outputName \notin stepOutputs[ref.stepId]
    THEN UnknownOutput(ref.outputName, ref.stepId, stepOutputs[ref.stepId],
                       blockStartLine + lineAtOffset(blockText, ref.index) - 1)
    ELSE <<>>

\* One turn of the exec loop of validateOutputReferences
CheckReference(ref, stepOutputs, blockText, blockStartLine) ==
    IF ref.stepId \notin DOMAIN stepOutputs THEN <<>>
    ELSE IF ref.outputName \notin stepOutputs[ref.stepId]
    THEN UnknownOutput(ref.outputName, ref.stepId, stepOutputs[ref.stepId],
                       blockStartLine + lineAtOffset(blockText, ref.index) - 1)
    ELSE <<>>

\* The errors of the matches refs[i..]
RECURSIVE CheckReferencesFrom(_, _, _, _, _)
CheckReferencesFrom(refs, i, stepOutputs, blockText, blockStartLine) ==
    IF i > Len(refs) THEN <<>>
    ELSE CheckReference(refs[i], stepOutputs, blockText, blockStartLine)
         \o CheckReferencesFrom(refs, i + 1, stepOutputs, blockText, blockStartLine)

validateOutputReferences(blockText, steps, schemas, blockStartLine) ==
    CheckReferencesFrom(OutputRefsFrom(blockText, 1), 1, StepOutputs(steps, schemas),
                        blockText, blockStartLine)

(***************************************************************************)
(* The inputs of a run: the manifest, the sidecar file and the steps of    *)
(* the documentation blocks.                                               *)
(***************************************************************************)
T(s) == Chars(s)

lowerPlus == T("^[a-z]+$")

lowerStar == T("^[a-z]*$")

lowerPlusGlobal == T("/^[a-z]+$/g")

comma == <<",">>

someOptions ==
    <<Plain(T("a")),
      [value |-> T("11"),
       alternatives |-> Array(<<StringValue(T("1")), BooleanValue(TRUE)>>)],
      [value |-> T("a1")],
      Plain(T("1a #1"))>>

\* The `types` section of the sidecar file
CustomTypes ==
    (T("lower") :> [type |-> T("string"), match |-> lowerPlus])
    @@ (T("env") :> [type |-> T("choice"), options |-> someOptions])
    @@ (T("list") :> [type |-> T("string"), separators |-> OneString(comma),
                      items |-> [type |-> T("string")]])
    @@ (T("loose") :> [type |-> T("any")])
    @@ (T("word") :> [type |-> T("lower")])

\* The custom types with one more, whose name has an upper-case letter
TypesWithUpperCase == CustomTypes @@ (T("Tag") :> [type |-> T("string"), match |-> lowerPlus])

\* The custom types with one more, whose type is the name of no type
TypesWithStray == CustomTypes @@ (T("stray") :> [type |-> T("missing")])

\* The definitions the sidecar file may give the input x
InputDefinitions ==
    {[type |-> T("any")],
     [type |-> T("boolean")],
     [type |-> T("number")],
     [type |-> T("String")],
     [match |-> lowerPlus],
     [type |-> T("string"), match |-> lowerStar],
     [type |-> T("string"), match |-> lowerPlusGlobal],
     [type |-> T("choice"), options |-> someOptions],
     [type |-> T("choice")],
     [type |-> T("number"), match |-> lowerPlus],
     [type |-> T("string"), separators |-> OneString(comma), match |-> lowerPlus],
     [type |-> T("string"), separators |-> Array(<<newline, comma>>), match |-> lowerPlus],
     [type |-> T("string"), separators |-> OneString(comma),
      items |-> [type |-> T("string"), match |-> lowerPlus]],
     [type |-> T("string"), separators |-> Array(<<newline, comma>>),
      items |-> [type |-> T("string"), match |-> lowerPlus]],
     [type |-> T("string"), separators |-> OneString(comma),
      items |-> [type |-> T("string"), match |-> lowerPlusGlobal]],
     [type |-> T("string"), items |-> [type |-> T("number")]],
     [type |-> T("string"), separators |-> Array(<<>>), items |-> [type |-> T("number")]],
     [type |-> T("string"), separators |-> OneString(comma), items |-> [type |-> T("boolean")]],
     [type |-> T("string"), separators |-> OneString(comma), items |-> [type |-> T("any")]],
     [type |-> T("string"), separators |-> OneString(comma),
      items |-> [type |-> T("choice"), options |-> someOptions]],
     [type |-> T("any"), separators |-> OneString(comma), items |-> [type |-> T("number")]],
     [type |-> T("string"), separators |-> OneString(comma),
      items |-> [type |-> T("lower"), options |-> someOptions]],
     [ref |-> T("lower")],
     [ref |-> T("env")],
     [ref |-> T("missing")],
     [type |-> T("word")],
     [type |-> T("lower"), options |-> someOptions],
     [type |-> T("env"), match |-> lowerPlus],
     [type |-> T("list"), items |-> [type |-> T("number")]],
     [type |-> T("loose"), match |-> lowerPlus, options |-> someOptions],
     [type |-> T("env"), options |-> <<Plain(T("zz"))>>],
     [type |-> T("lower"), match |-> lowerStar],
     [type |-> T("list"), separators |-> Array(<<T(";"), comma>>)],
     [type |-> T("missing")],
     [type |-> T("string"), separators |-> OneString(comma), items |-> [type |-> T("missing")]],
     [ref |-> T("constructor")],
     [type |-> T("constructor")]}

\* The parsed manifests: x is declared, y is declared without a sidecar definition
Manifests ==
    {[inputs |-> ("x" :> [required |-> FALSE]) @@ ("y" :> [required |-> FALSE]),
      outputs |-> {T("result")}],
     [inputs |-> ("x" :> [required |-> TRUE])
                 @@ ("y" :> [required |-> TRUE, type |-> T("Boolean")]),
      outputs |-> {}]}

\* What a manifest that is no mapping parses to: a scalar, null for the empty
\* document, or a sequence
OtherDocuments ==
    {[scalar |-> StringValue(T("just a string"))],
     [scalar |-> NullValue],
     [sequence |-> <<StringValue(T("a"))>>]}

\* The sidecar files: the custom types and a definition of x, and the files with
\* an `outputs` section, with an entry for the input z or with the type stray
Sidecars ==
    {[types |-> CustomTypes, inputs |-> ("x" :> d)] : d \in InputDefinitions}
    \cup {[types |-> TypesWithStray, inputs |-> ("x" :> d)] :
             d \in {[ref |-> T("stray")], [type |-> T("stray"), match |-> lowerPlus],
                    [type |-> T("any")]}}
    \cup {[types |-> CustomTypes, inputs |-> ("x" :> [type |-> T("any")]), outputs |-> o] :
             o \in {T("result") :> [type |-> T("string")],
                    T("result") :> [ref |-> T("lower")],
                    T("result") :> [ref |-> T("missing")],
                    T("result") :> [type |-> T("number"), match |-> lowerPlus],
                    T("extra") :> [type |-> T("string")]}}
    \cup {[types |-> CustomTypes, inputs |-> ("x" :> [type |-> T("any")]) @@ ("z" :> d)] :
             d \in {[type |-> T("number")], [ref |-> T("missing")]}}
    \cup {[types |-> TypesWithUpperCase, inputs |-> ("x" :> d)] :
             d \in {[ref |-> T("Tag")], [type |-> T("Tag")]}}

\* The manifest and the sidecar file of a run
Runs ==
    (Manifests \X Sidecars)
    \cup (OtherDocuments \X {[types |-> CustomTypes, inputs |-> EmptyObject]})

Alphabet == {"a", "1", ",", " ", "\n"}

\* Values that need more characters than MaxLen of Alphabet gives
SampleValues ==
    {StringValue(T(s)) : s \in
        {"yes", "maybe", "True", "on", "OFF", "a #1", "1a #1", "'a' # c", "\"a,1\"",
         "a, a\n1, a", "a,a\na,a", "a,a,a,1,a",
         "${{ 'a' }}", "${{ 'zz' }}", "${{ 1 }}", "${{ true }}",
         "${{ secrets.T }}", "a,${{ x }}", "${{ 'a' }},${{ x.y }}"}}
    \cup {BooleanValue(TRUE), BooleanValue(FALSE), NumberValue(T("12")), NullValue}

Values == {StringValue(s) : s \in StringsUpTo(Alphabet, MaxLen)} \cup SampleValues

\* The values of the entries of a step with two entries
SmallValues ==
    {StringValue(T(s)) : s \in {"", "a", "zz", "${{ x }}"}}

InputNames == {"x", "y", "u"}

Uses == T("owner/repo@v1")

\* A step as the strict parse finds it: no line of its own, no lines of its entries
StrictStep(with) == [uses |-> Uses, with |-> with, lineInBlock |-> 1]

\* A step as the tolerant scanner finds it on the first line of a block: `with:` on
\* the second line, the k-th entry on line k + 2
TolerantStep(with) ==
    [uses |-> Uses, with |-> with, lineInBlock |-> 1,
     withLines |-> [n \in {with[k].name : k \in 1..Len(with)} |->
                       2 + (CHOOSE k \in 1..Len(with) : with[k].name = n)]]

Entry(n, v) == [name |-> n, value |-> v]

Withs ==
    {<<Entry("x", v)>> : v \in Values}
    \cup {<<Entry(n, v)>> : n \in {"y", "u"}, v \in SmallValues}
    \cup {<<Entry(p[1], v1), Entry(p[2], v2)>> :
             p \in {q \in InputNames \X {"y", "u"} : q[1] # q[2]},
             v1 \in SmallValues, v2 \in SmallValues}

Steps ==
    {StrictStep(w) : w \in Withs}
    \cup {TolerantStep(w) : w \in {w \in Withs : Len(w) = 2}}
    \cup {[uses |-> Uses, lineInBlock |-> 1]}

\* The line of the document on which a block's content starts
BlockStartLines == {1, 7}

\* The action of the manifest, and a second action of the repository in a
\* subdirectory, which declares the output q
ActionReference == T("owner/repo")

SubActionReference == T("owner/repo/sub")

SubActionOutputs == {T("q")}

\* The steps findReferencedSteps extracts from a block, as validateOutputReferences
\* reads them: the action and, when the step has one, the id
ExtractedSteps ==
    {[actionReference |-> ActionReference],
     [actionReference |-> ActionReference, id |-> T("b")],
     [actionReference |-> ActionReference, id |-> T("c")],
     [actionReference |-> SubActionReference, id |-> T("b")]}

StepLists ==
    {<<>>} \cup {<<a>> : a \in ExtractedSteps}
    \cup {<<a, b>> : a \in ExtractedSteps, b \in ExtractedSteps}

\* The texts of a block
BlockTexts ==
    {T(t) : t \in
        {"steps.b.outputs.result",
         "steps.b.outputs.q",
         "\nsteps.c.outputs.result-1",
         "steps.d.outputs.q",
         "x: ${{ steps.b.outputs.zz }}\ny: ${{ steps.c.outputs.q }} ${{ steps.b.outputs.q }}",
         "steps.b.outputs.",
         "steps.steps.b.outputs.q",
         "steps.b.outputs.result\n\nsteps.b.outputs.result",
         "uses: owner/repo@v1"}}

Blocks == [text : BlockTexts, steps : StepLists]

(***************************************************************************)
(* The run: the schema is loaded once; then, block after block, a step is  *)
(* found and validated against it.                                         *)
(***************************************************************************)
VARIABLES
    pc,             \* "start", "failed", "loaded", "found", "validated", "scanned" or "checked"
    manifest,       \* the parsed action.yml
    sidecar,        \* the parsed action.schema.yml
    inputs,         \* the inputs of the loaded ActionSchema
    outputs,        \* the outputs of the loaded ActionSchema
    step,           \* the step found in the current block
    block,          \* the text of the current block and the steps extracted from it
    blockStartLine, \* the line on which the current block starts
    errors,         \* the diagnostics of validateStep for the step
    failure,        \* the message of the Error loadActionSchema has thrown
    outputErrors,   \* the diagnostics of validateOutputReferences for the block
    call,           \* a call of a function of the library: its name and arguments
    returned        \* what the call returned

runVars == <<pc, manifest, sidecar, inputs, outputs, step, block, blockStartLine, errors,
            failure, outputErrors>>

vars == <<runVars, call, returned>>

NoCall == [fn |-> ""]

NoStep == [uses |-> <<>>, lineInBlock |-> 0]

NoBlock == [text |-> <<>>, steps |-> <<>>]

\* The registry of schemas: the loaded schema and the schema of the second action
Schemas ==
    (ActionReference :> [outputs |-> outputs])
    @@ (SubActionReference :> [outputs |-> SubActionOutputs])

Init ==
    /\ pc = "start"
    /\ \E run \in Runs : manifest = run[1] /\ sidecar = run[2]
    /\ inputs = EmptyObject
    /\ outputs = {}
    /\ step = NoStep
    /\ block = NoBlock
    /\ blockStartLine = 0
    /\ errors = <<>>
    /\ failure = ""
    /\ outputErrors = <<>>
    /\ call = NoCall
    /\ returned = NoCall

\* loadActionSchema returns the schema
LoadActionSchema ==
    /\ pc = "start"
    /\ ~loadActionSchema(manifest, sidecar).throws
    /\ inputs' = loadActionSchema(manifest, sidecar).value.inputs
    /\ outputs' = loadActionSchema(manifest, sidecar).value.outputs
    /\ pc' = "loaded"
    /\ UNCHANGED <<manifest, sidecar, failure, step, block, blockStartLine, errors, outputErrors>>
    /\ UNCHANGED <<call, returned>>

\* loadActionSchema throws
LoadFails ==
    /\ pc = "start"
    /\ loadActionSchema(manifest, sidecar).throws
    /\ pc' = "failed"
    /\ failure' = loadActionSchema(manifest, sidecar).message
    /\ UNCHANGED <<manifest, sidecar, inputs, outputs, step, block, blockStartLine, errors,
                   outputErrors>>
    /\ UNCHANGED <<call, returned>>

\* findReferencedSteps hands over a step of a block
FindStep ==
    /\ pc = "loaded"
    /\ \E s \in Steps, b \in BlockStartLines :
          /\ step' = s
          /\ blockStartLine' = b
    /\ pc' = "found"
    /\ UNCHANGED <<manifest, sidecar, failure, inputs, outputs, block, errors, outputErrors>>
    /\ UNCHANGED <<call, returned>>

\* validateStep(step, schema, blockStartLine)
ValidateStep ==
    /\ pc = "found"
    /\ LET validated == validateStep(step, inputs, blockStartLine)
       IN  /\ errors' = validated.errors
           /\ inputs' = validated.inputs
    /\ pc' = "validated"
    /\ UNCHANGED <<manifest, sidecar, failure, outputs, step, block, blockStartLine, outputErrors>>
    /\ UNCHANGED <<call, returned>>

\* A block is read for its references to outputs of steps
FindBlock ==
    /\ pc = "loaded"
    /\ block' \in Blocks
    /\ blockStartLine' \in BlockStartLines
    /\ pc' = "scanned"
    /\ UNCHANGED <<manifest, sidecar, failure, inputs, outputs, step, errors, outputErrors>>
    /\ UNCHANGED <<call, returned>>

\* validateOutputReferences(block.text, steps, schemas, block.contentStartLine)
ValidateOutputReferences ==
    /\ pc = "scanned"
    /\ outputErrors' = validateOutputReferences(block.text, block.steps, Schemas, blockStartLine)
    /\ pc' = "checked"
    /\ UNCHANGED <<manifest, sidecar, failure, inputs, outputs, step, block, blockStartLine, errors>>
    /\ UNCHANGED <<call, returned>>

\* The run moves on to the next block; the schema stays as validation left it
NextBlock ==
    /\ pc \in {"validated", "checked"}
    /\ pc' = "loaded"
    /\ step' = NoStep
    /\ block' = NoBlock
    /\ blockStartLine' = 0
    /\ errors' = <<>>
    /\ outputErrors' = <<>>
    /\ UNCHANGED <<manifest, sidecar, failure, inputs, outputs>>
    /\ UNCHANGED <<call, returned>>

Next ==
    \/ LoadActionSchema
    \/ LoadFails
    \/ FindStep
    \/ ValidateStep
    \/ FindBlock
    \/ ValidateOutputReferences
    \/ NextBlock

Spec == Init /\ [][Next]_vars

(***************************************************************************)
(* main.ts: the code blocks of a Markdown document                         *)
(***************************************************************************)
\* markdownContent.replace(/\r\n/g, '\n')
ReplaceCRLF(s) ==
    FilterIdx(s, {i \in 1..Len(s) : ~(s[i] = "\r" /\ i < Len(s) /\ s[i + 1] = "\n")})

\* The character of a fence
Backtick == SubSeq("`'", 1, 1)

Fence == <<Backtick, Backtick, Backtick>>

FenceAt(s, i) == i + 2 <= Len(s) /\ SubSeq(s, i, i + 2) = Fence

\* (?:yaml|yml) under the i flag, at i: the length of the tag, 0 when there is none
TagAt(s, i) ==
    IF i + 3 <= Len(s) /\ ToLowerCase(SubSeq(s, i, i + 3)) = Chars("yaml") THEN 4
    ELSE IF i + 2 <= Len(s) /\ ToLowerCase(SubSeq(s, i, i + 2)) = Chars("yml") THEN 3
    ELSE 0

\* \s*\n at p: the position after the last line break of the white space at p, 0 when
\* the white space holds none
AfterSpaceAndNewline(s, p) ==
    LET nls == {k \in p..Len(s) : s[k] = "\n" /\ \A m \in p..k : s[m] \in Spaces}
    IN  IF nls = {} THEN 0 ELSE Max(nls) + 1

\* The regex of extractYamlCodeBlocks matched at i: a fence, (?:yaml|yml), \s*\n,
\* ([\s\S]*?) and a fence, under the flags g and i
FencedAt(s, i) ==
    LET tag == TagAt(s, i + 3)
        contentStart == AfterSpaceAndNewline(s, i + 3 + tag)
        closes == {j \in contentStart..Len(s) : FenceAt(s, j)}
    IN  IF FenceAt(s, i) /\ tag > 0 /\ contentStart > 0 /\ closes # {}
        THEN [matched |-> TRUE, text |-> SubSeq(s, contentStart, Min(closes) - 1),
              lastIndex |-> Min(closes) + 3]
        ELSE [matched |-> FALSE]

\* The while loop of extractYamlCodeBlocks, with regex.exec resumed at `from`
RECURSIVE ExecBlocksFrom(_, _)
ExecBlocksFrom(normalized, from) ==
    LET found == {i \in from..Len(normalized) : FencedAt(normalized, i).matched}
    IN  IF found = {} THEN <<>>
        ELSE LET index == Min(found)
                 match == FencedAt(normalized, index)
                 fenceLine == lineAtOffset(normalized, index - 1)
             IN  <<[text |-> match.text, contentStartLine |-> fenceLine + 1]>>
                    \o ExecBlocksFrom(normalized, match.lastIndex)

extractYamlCodeBlocks(markdownContent) == ExecBlocksFrom(ReplaceCRLF(markdownContent), 1)

(***************************************************************************)
(* main.ts: the tolerant scanner of a block                                *)
(***************************************************************************)
HasPrefix(s, prefix) == Len(prefix) <= Len(s) /\ SubSeq(s, 1, Len(prefix)) = prefix

\* line.match(/^[ \t]*/)[0].length
countIndent(line) ==
    LET idx == {i \in 1..Len(line) : line[i] \notin {" ", "\t"}}
    IN  IF idx = {} THEN Len(line) ELSE Min(idx) - 1

AfterIndent(line) == SliceFrom(line, countIndent(line))

\* mlLine.trimStart()
TrimStart(s) == SliceFrom(s, LeadingSpaces(s))

IsBlank(line) == Trim(line) = <<>>

unquote(value) ==
    LET trimmed == Trim(value)
    IN  IF /\ Len(trimmed) >= 2
           /\ \/ trimmed[1] = "\"" /\ trimmed[Len(trimmed)] = "\""
              \/ trimmed[1] = "'" /\ trimmed[Len(trimmed)] = "'"
        THEN SubSeq(trimmed, 2, Len(trimmed) - 1)
        ELSE trimmed

\* The loop of stripComment over trimmed, at i: the position of the first # outside
\* quotes, 0 when there is none
RECURSIVE CommentStart(_, _, _, _)
CommentStart(trimmed, i, inSingleQuote, inDoubleQuote) ==
    IF i > Len(trimmed) THEN 0
    ELSE IF trimmed[i] = "'" /\ ~inDoubleQuote
    THEN CommentStart(trimmed, i + 1, ~inSingleQuote, inDoubleQuote)
    ELSE IF trimmed[i] = "\"" /\ ~inSingleQuote
    THEN CommentStart(trimmed, i + 1, inSingleQuote, ~inDoubleQuote)
    ELSE IF trimmed[i] = "#" /\ ~inSingleQuote /\ ~inDoubleQuote THEN i
    ELSE CommentStart(trimmed, i + 1, inSingleQuote, inDoubleQuote)

stripComment(value) ==
    LET trimmed == Trim(value)
        hash == CommentStart(trimmed, 1, FALSE, FALSE)
    IN  IF /\ Len(trimmed) >= 2
           /\ \/ trimmed[1] = "\"" /\ trimmed[Len(trimmed)] = "\""
              \/ trimmed[1] = "'" /\ trimmed[Len(trimmed)] = "'"
        THEN trimmed
        ELSE IF hash > 0 THEN Trim(SubSeq(trimmed, 1, hash - 1))
        ELSE trimmed

\* let rawValue = unquote(valueMatch[1]); rawValue = stripComment(rawValue)
ExtractedValue(group) == stripComment(unquote(group))

\* /^([ \t]*)-?\s*uses:\s*(.+?)\s*$/
UsesMatch(line) ==
    LET afterIndent == AfterIndent(line)
        afterDash == IF HasPrefix(afterIndent, <<"-">>) THEN Tail(afterIndent) ELSE afterIndent
        afterSpace == TrimStart(afterDash)
    IN  IF HasPrefix(afterSpace, Chars("uses:")) /\ Len(afterSpace) > 5
        THEN [matched |-> TRUE, indent |-> countIndent(line),
              value |-> Trim(SliceFrom(afterSpace, 5))]
        ELSE [matched |-> FALSE]

\* new RegExp(`^${escapedRef}@.+$`, 'i').test(unquote(usesValue)), for the one schema
extractActionReference(usesValue) ==
    LET trimmed == unquote(usesValue)
    IN  /\ HasPrefix(ToLowerCase(trimmed), ToLowerCase(ActionReference) \o <<"@">>)
        /\ Len(trimmed) > Len(ActionReference) + 1

\* /^([ \t]*)-\s+/
NextStepMatch(line) ==
    LET rest == AfterIndent(line)
    IN  Len(rest) >= 2 /\ rest[1] = "-" /\ rest[2] \in Spaces

\* /^[ \t]*id:\s*(.+?)\s*$/
IdMatch(line) ==
    LET rest == AfterIndent(line)
    IN  IF HasPrefix(rest, Chars("id:")) /\ Len(rest) > 3
        THEN [matched |-> TRUE, value |-> Trim(SliceFrom(rest, 3))]
        ELSE [matched |-> FALSE]

\* /^([ \t]*)with:\s*$/
WithMatch(line) ==
    LET rest == AfterIndent(line)
    IN  HasPrefix(rest, Chars("with:")) /\ Trim(SliceFrom(rest, 5)) = <<>>

KeyChars == LowerLetters \cup UpperLetters \cup Digits \cup {"_", ".", "-"}

\* /^[ \t]*([A-Za-z0-9_.-]+)\s*:/
KeyMatch(line) ==
    LET rest == AfterIndent(line)
        others == {i \in 1..Len(rest) : rest[i] \notin KeyChars}
        keyEnd == IF others = {} THEN Len(rest) ELSE Min(others) - 1
        afterKey == TrimStart(SliceFrom(rest, keyEnd))
    IN  IF keyEnd >= 1 /\ HasPrefix(afterKey, <<":">>)
        THEN [matched |-> TRUE, key |-> SubSeq(rest, 1, keyEnd)]
        ELSE [matched |-> FALSE]

\* /:\s*([|>])\s*$/
MultilineMatch(line) ==
    \E c \in 1..Len(line) :
        line[c] = ":" /\ Trim(SliceFrom(line, c)) \in {<<"|">>, <<">">>}

\* /:\s*(.+?)\s*$/
ValueMatch(line) ==
    LET colons == {c \in 1..Len(line) : line[c] = ":" /\ c < Len(line)}
    IN  IF colons = {} THEN [matched |-> FALSE]
        ELSE [matched |-> TRUE, value |-> Trim(SliceFrom(line, Min(colons)))]

\* The loop over the lines of a block scalar, at mlIndex
RECURSIVE CollectValueLines(_, _, _, _)
CollectValueLines(lines, mlIndex, multilineIndent, collected) ==
    IF mlIndex > Len(lines) THEN collected
    ELSE IF ~IsBlank(lines[mlIndex]) /\ countIndent(lines[mlIndex]) <= multilineIndent
    THEN collected
    ELSE IF ~IsBlank(lines[mlIndex])
    THEN CollectValueLines(lines, mlIndex + 1, multilineIndent,
             [valueLines |-> Append(collected.valueLines, TrimStart(lines[mlIndex])),
              innerIndex |-> mlIndex])
    ELSE CollectValueLines(lines, mlIndex + 1, multilineIndent, collected)

\* The step with the entry of a key added: its value and the line kept for it
WithEntry(found, key, value, line) ==
    [found EXCEPT !.with = (key :> value) @@ found.with,
                  !.withLines = (key :> line) @@ found.withLines]

\* The inner loop of findReferencedStepsTolerant, at the line innerIndex (counted from 1)
RECURSIVE ScanStep(_, _, _, _)
ScanStep(lines, innerIndex, stepIndent, found) ==
    IF innerIndex > Len(lines) THEN found
    ELSE LET innerLine == lines[innerIndex]
             innerIndent == countIndent(innerLine)
             idMatch == IdMatch(innerLine)
             withId == IF idMatch.matched
                       THEN [found EXCEPT !.id = unquote(stripComment(idMatch.value))]
                       ELSE found
             keyMatch == KeyMatch(innerLine)
             valueMatch == ValueMatch(innerLine)
             collected == CollectValueLines(lines, innerIndex + 1, innerIndent,
                              [valueLines |-> <<>>, innerIndex |-> innerIndex])
         IN  IF IsBlank(innerLine) THEN ScanStep(lines, innerIndex + 1, stepIndent, found)
             ELSE IF NextStepMatch(innerLine) /\ innerIndent <= stepIndent THEN found
             ELSE IF innerIndent <= stepIndent THEN found
             ELSE IF WithMatch(innerLine)
             THEN ScanStep(lines, innerIndex + 1, stepIndent,
                      [withId EXCEPT !.withIndent = innerIndent, !.hasWith = TRUE,
                                     !.with = <<>>])
             ELSE IF withId.withIndent >= 0 /\ innerIndent > withId.withIndent
                     /\ keyMatch.matched
             THEN IF MultilineMatch(innerLine)
                  THEN ScanStep(lines, collected.innerIndex + 1, stepIndent,
                           WithEntry(withId, keyMatch.key,
                               StringValue(Join(collected.valueLines, <<"\n">>)),
                               collected.innerIndex))
                  ELSE ScanStep(lines, innerIndex + 1, stepIndent,
                           WithEntry(withId, keyMatch.key,
                               IF valueMatch.matched
                               THEN StringValue(ExtractedValue(valueMatch.value))
                               ELSE BooleanValue(TRUE),
                               innerIndex))
             ELSE ScanStep(lines, innerIndex + 1, stepIndent, withId)

\* The outer loop of findReferencedStepsTolerant, at the line lineIndex (counted from 1)
RECURSIVE ScanFrom(_, _)
ScanFrom(lines, lineIndex) ==
    IF lineIndex > Len(lines) THEN <<>>
    ELSE LET usesMatch == UsesMatch(lines[lineIndex])
             usesValue == stripComment(unquote(usesMatch.value))
         IN  IF usesMatch.matched /\ extractActionReference(usesValue)
             THEN <<ScanStep(lines, lineIndex + 1, usesMatch.indent,
                        [actionReference |-> ActionReference, uses |-> usesValue,
                         id |-> <<>>, hasWith |-> FALSE, with |-> <<>>,
                         withLines |-> <<>>, withIndent |-> -1,
                         lineInBlock |-> lineIndex])>>
                     \o ScanFrom(lines, lineIndex + 1)
             ELSE ScanFrom(lines, lineIndex + 1)

findReferencedStepsTolerant(blockText) == ScanFrom(SplitOn(blockText, {"\n"}), 1)

(***************************************************************************)
(* The functions of the library called on their own: a call is made with   *)
(* arguments drawn from the values below, and it returns.                  *)
(***************************************************************************)
\* What a placeholder may hold
ExpressionContents ==
    {T(c) : c \in
        {"'a'", "'it''s'", "'a'b'", "'''", "''", "\"a\"", "1", "-9.2", "+.5", "7.", "0xff",
         "0XFF", "0o17", "0o8", "0x", "1e5", "-2.99e-2", "1e", ".", "1.2.3", "--1", "true",
         "false", "null", "True", "NULL", "NaN", "nan", "Infinity", "infinity", "x",
         "secrets.T", ""}}

\* The values with a placeholder: alone, within text, after a literal placeholder,
\* without its end, and with a line break before its end
ExpressionValues ==
    UNION {{StringValue(T("${{") \o c \o T("}}")),
            StringValue(T("${{ ") \o c \o T(" }}")),
            StringValue(T(" a ${{  ") \o c \o T("\t}} 1")),
            StringValue(T("${{ 1 }}${{ ") \o c \o T(" }}")),
            StringValue(T("${{ ") \o c),
            StringValue(T("${{ ") \o c \o T("\n}}"))} : c \in ExpressionContents}

\* Quoted values followed by a comment, each with the value it quotes
QuotedThenCommented ==
    {[written |-> T("'v1' # note"), plain |-> T("v1")],
     [written |-> T("\"v1\" # note"), plain |-> T("v1")],
     [written |-> T("  'a b'\t#c"), plain |-> T("a b")],
     [written |-> T("'v1' # it's"), plain |-> T("v1")]}

NormalizeValueArguments ==
    ExpressionValues \cup SampleValues
        \cup {StringValue(q.written) : q \in QuotedThenCommented}
        \cup {StringValue(q.plain) : q \in QuotedThenCommented}

\* No run of the checker is under way
NoRun ==
    /\ pc = "calls"
    /\ manifest = EmptyObject
    /\ sidecar = EmptyObject
    /\ inputs = EmptyObject
    /\ outputs = {}
    /\ step = NoStep
    /\ block = NoBlock
    /\ blockStartLine = 0
    /\ errors = <<>>
    /\ failure = ""
    /\ outputErrors = <<>>

CallsInit == NoRun /\ call = NoCall /\ returned = NoCall

\* normalizeValue(value)
NormalizeValue ==
    /\ call = NoCall
    /\ \E value \in NormalizeValueArguments :
          /\ call' = [fn |-> "normalizeValue", value |-> value]
          /\ returned' = normalizeValue(value)
    /\ UNCHANGED runVars

\* The values split: lists on one line and on several, with quoted items and comments
SplitMultiValueArguments ==
    SampleValues \cup
    {StringValue(T(s)) : s \in
        {"a,b", " a , b ,, ", "'a',b", "'a', 'b'", "'a,b'", "a;b,c", "a\nb\n", "'a'\nb",
         "- a\n\"b\" # c\n\n", "a #1\n'b'", "a,b\nc", "a b", ""}}

\* The lists of separators of a definition
SeparatorLists ==
    {<<newline>>, <<Chars(",")>>, <<Chars(","), Chars(";")>>, <<newline, Chars(",")>>,
     <<Chars("\\n")>>, <<>>}

\* splitMultiValue(value, separators)
SplitMultiValue ==
    /\ call = NoCall
    /\ \E value \in SplitMultiValueArguments, separators \in SeparatorLists :
          /\ call' = [fn |-> "splitMultiValue", value |-> value, separators |-> separators]
          /\ returned' = splitMultiValue(value, separators)
    /\ UNCHANGED runVars

\* The lines of a Markdown document: fences with and without a tag, text, an empty line
MarkdownLines ==
    {Fence \o T("yaml"), Fence \o T("YML \r"), Fence \o T("js"), Fence, T(""), T("a: 1")}

MaxLines == 4

MarkdownContents ==
    {Join(lines, <<"\n">>) : lines \in UNION {[1..n -> MarkdownLines] : n \in 1..MaxLines}}

\* extractYamlCodeBlocks(markdownContent)
ExtractYamlCodeBlocks ==
    /\ call = NoCall
    /\ \E markdownContent \in MarkdownContents :
          /\ call' = [fn |-> "extractYamlCodeBlocks", markdownContent |-> markdownContent]
          /\ returned' = extractYamlCodeBlocks(markdownContent)
    /\ UNCHANGED runVars

\* The lines of a step that the strict parse rejects: the dash of the step is not
\* followed by a space
StepLines == <<T("-uses: owner/repo@v1 # c"), T("  id: 'b' # c"), T("  with:")>>

\* The lines that follow `with:`
EntryLines ==
    {T("    x: \"a # b\""), T("    x: 'a#b'  "), T("    y: 'v' # note"), T("    y: a # c"),
     T("    x: |"), T("    y: >  "), T("      l1"), T("      l2 # d"), T(""), T("    x:")}

MaxEntryLines == 3

TolerantBlockTexts ==
    {Join(StepLines \o entries, <<"\n">>) :
        entries \in UNION {[1..n -> EntryLines] : n \in 0..MaxEntryLines}}

\* findReferencedStepsTolerant(blockText, schemas)
FindReferencedStepsTolerant ==
    /\ call = NoCall
    /\ \E blockText \in TolerantBlockTexts :
          /\ call' = [fn |-> "findReferencedStepsTolerant", blockText |-> blockText]
          /\ returned' = findReferencedStepsTolerant(blockText)
    /\ UNCHANGED runVars

\* The caller goes on
ReturnToCaller ==
    /\ call # NoCall
    /\ call' = NoCall
    /\ returned' = NoCall
    /\ UNCHANGED runVars

CallsNext ==
    \/ NormalizeValue
    \/ SplitMultiValue
    \/ ExtractYamlCodeBlocks
    \/ FindReferencedStepsTolerant
    \/ ReturnToCaller

Calls == CallsInit /\ [][CallsNext]_vars

(***************************************************************************)
(* Properties of validateStep, read off the state in which it has returned *)
(***************************************************************************)
Validated == pc = "validated"

\* The entries of the `with` mapping of the step
Entries == IF Has(step, "with") THEN {step.with[k] : k \in 1..Len(step.with)} ELSE {}

\* The positions in `errors` of the diagnostics about input n
ErrorsAbout(n) == {k \in 1..Len(errors) : errors[k].input = n}

Known(n) == n \in DOMAIN inputs

MultiValuePath(n) == Known(n) /\ Has(inputs[n], "items") /\ Has(inputs[n], "separators")

SingleValuePath(n) == Known(n) /\ ~MultiValuePath(n)

\* The resolved type of input n, or the empty string
TypeOf(n) == IF Known(n) /\ Has(inputs[n], "type") THEN inputs[n].type ELSE <<>>

\* C1: validateStep emits exactly one "unknown input" diagnostic, and nothing else,
\* for each entry whose name is no key of schema.inputs, and no "unknown input"
\* diagnostic for an entry whose name is a key of schema.inputs.
C1_UnknownInputs ==
    Validated =>
        \A e \in Entries :
            IF Known(e.name)
            THEN \A k \in ErrorsAbout(e.name) : errors[k].kind # "unknown"
            ELSE /\ Cardinality(ErrorsAbout(e.name)) = 1
                 /\ \A k \in ErrorsAbout(e.name) : errors[k].kind = "unknown"

\* An unknown entry u next to a known entry x whose value fails its type check
C1_Witness ==
    /\ Validated
    /\ \E e \in Entries : ~Known(e.name) /\ e.value = StringValue(T("zz"))
    /\ \E e \in Entries :
          /\ Known(e.name)
          /\ \E k \in ErrorsAbout(e.name) : errors[k].kind = "boolean"

\* A value of the form ${{ '...' }}: a placeholder around one single-quoted string
IsQuotedPlaceholder(s) ==
    /\ Len(s) >= 9
    /\ SubSeq(s, 1, 5) = T("${{ '")
    /\ SubSeq(s, Len(s) - 3, Len(s)) = T("' }}")
    /\ \A i \in 6..(Len(s) - 4) : s[i] # "'"

\* The content of the literal of such a value
QuotedContent(s) == SubSeq(s, 6, Len(s) - 4)

\* C2: a `with` value that is a literal expression placeholder such as ${{ 'prod' }}
\* is validated by the literal's content: against a choice type it yields zero
\* diagnostics if the content is one of the flattened options, and a diagnostic if
\* it is not.
C2_LiteralValidatedByContent ==
    Validated =>
        \A e \in Entries :
            /\ Known(e.name)
            /\ TypeOf(e.name) = T("choice")
            /\ e.value.t = "string"
            /\ IsQuotedPlaceholder(e.value.s)
            => (ErrorsAbout(e.name) = {}
                <=> \E i \in 1..Len(inputs[e.name].options) :
                       inputs[e.name].options[i] = QuotedContent(e.value.s))

PlainText(s) == \A i \in 1..Len(s) : s[i] \in Alphabet

\* The pieces of s between the characters of seps, trimmed, the empty ones dropped
ItemsBetween(s, seps) ==
    LET pieces == SplitOn(s, seps)
    IN  FilterIdx([i \in 1..Len(pieces) |-> Trim(pieces[i])],
                  {i \in 1..Len(pieces) : Trim(pieces[i]) # <<>>})

\* The lines of s, each split on the characters of seps
LinesThenSeparators(s, seps) ==
    LET lines == SplitOn(s, {"\n"})
    IN  Join([i \in 1..Len(lines) |-> ItemsBetween(lines[i], seps)], <<>>)

\* The characters a resolved separator list splits on
SeparatorChars(separators) ==
    {IF separators[k] = newline THEN "\n" ELSE separators[k][1] : k \in 1..Len(separators)}

\* Whether str as a whole matches the pattern, whatever the pattern's lastIndex
Matches(re, str) == SourceMatches(re.source, HasFlag(re, "i"), str)

\* The definition the sidecar file gives x has separators and match but no items
ShorthandDefinition ==
    /\ ~Has(sidecar.inputs.x, "ref")
    /\ Has(sidecar.inputs.x, "separators")
    /\ Has(sidecar.inputs.x, "match")
    /\ ~Has(sidecar.inputs.x, "items")

\* C4: for an input whose sidecar definition has separators and a match pattern but
\* no items, validateStep splits the value on the separators and checks every item
\* against the pattern: no diagnostic when all items match, and exactly one
\* diagnostic, naming the item, when exactly one item does not match.
C4_ShorthandItemsChecked ==
    Validated /\ ShorthandDefinition =>
        \A e \in Entries :
            /\ e.name = "x"
            /\ e.value.t = "string"
            /\ PlainText(e.value.s)
            => LET items == ItemsBetween(e.value.s, SeparatorChars(inputs.x.separators))
                   bad == {i \in 1..Len(items) : ~Matches(inputs.x.match, items[i])}
               IN  /\ items # <<>> /\ bad = {} => ErrorsAbout("x") = {}
                   /\ Cardinality(bad) = 1 =>
                         /\ Cardinality(ErrorsAbout("x")) = 1
                         /\ \A k \in ErrorsAbout("x") : \A i \in bad :
                               errors[k].shown = <<items[i]>>

\* C5: splitMultiValue with the separators newline and `,` splits the value on line
\* breaks first and every line on `,` then: the lines `a, b` and `c, d` yield the
\* four items a, b, c, d.
C5_NewlineThenSeparators ==
    pc = "found" =>
        \A e \in Entries :
            /\ e.value.t = "string"
            /\ PlainText(e.value.s)
            /\ \E i \in 1..Len(e.value.s) : e.value.s[i] = "\n"
            /\ \E i \in 1..Len(e.value.s) : e.value.s[i] = ","
            => LET split == splitMultiValue(e.value, <<newline, comma>>)
               IN  /\ ~split.isNull
                   /\ split.items = LinesThenSeparators(e.value.s, {","})

\* The spellings of a boolean, in lower case
AcceptedBooleans ==
    {T("true"), T("yes"), T("y"), T("1"), T("on"),
     T("false"), T("no"), T("n"), T("0"), T("off"), T("")}

\* Whether an item does not satisfy the descriptor of the items of its list
ItemFails(item, itemSchema) ==
    LET normalized == normalizeValue(StringValue(item)).str
    IN  IF itemSchema.type = T("boolean") THEN ToLowerCase(normalized) \notin AcceptedBooleans
        ELSE IF itemSchema.type = T("number") THEN ~IsNumeric(normalized)
        ELSE IF itemSchema.type \in {T("string"), T("choice")}
        THEN \/ Has(itemSchema, "match") /\ ~Matches(itemSchema.match, normalized)
             \/ /\ Has(itemSchema, "options")
                /\ \A i \in 1..Len(itemSchema.options) : itemSchema.options[i] # normalized
        ELSE FALSE

\* C6: on the multi-value path validateStep emits exactly one diagnostic for each
\* item that fails validation and none for an item that passes, and each diagnostic
\* carries the 1-based position of its item in the list of split items.
C6_OneDiagnosticPerFailingItem ==
    Validated =>
        \A e \in Entries :
            /\ MultiValuePath(e.name)
            /\ e.value.t = "string"
            /\ ~containsExpression(e.value.s)
            => LET items == splitMultiValue(e.value, inputs[e.name].separators).items
               IN  /\ \A k \in ErrorsAbout(e.name) : errors[k].item \in 1..Len(items)
                   /\ \A i \in 1..Len(items) :
                         Cardinality({k \in ErrorsAbout(e.name) : errors[k].item = i})
                             = IF ItemFails(items[i], inputs[e.name].items) THEN 1 ELSE 0

\* Whether the pattern matches the empty string
MatchesEmpty(re) == Matches(re, <<>>)

SpellingsOf(opt) ==
    IF Has(opt, "plain") THEN {opt.plain}
    ELSE {opt.value}
         \cup (IF Has(opt, "alternatives")
               THEN {convertToString(opt.alternatives.arr[i]) :
                        i \in 1..Len(opt.alternatives.arr)}
               ELSE {})

\* The flattened options of input n
FlattenedOptions(n) == {inputs[n].options[i] : i \in 1..Len(inputs[n].options)}

\* C8: for a resolved choice type every canonical option value and every
\* alternative of every option is in the flattened options, and a `with` value equal
\* to a canonical value or to an alternative yields zero diagnostics.
C8_OptionsAccepted ==
    Validated /\ Known("x") /\ TypeOf("x") = T("choice") =>
        /\ \A i \in 1..Len(someOptions) : SpellingsOf(someOptions[i]) \subseteq FlattenedOptions("x")
        /\ \A e \in Entries :
              e.name = "x" /\ e.value.s \in FlattenedOptions("x") => ErrorsAbout("x") = {}

C10_AnyNeverDiagnosed ==
    Validated =>
        \A e \in Entries :
            Known(e.name) /\ TypeOf(e.name) = T("any") => ErrorsAbout(e.name) = {}

\* C10: an input whose resolved type is any and that has no items to split into
\* yields zero diagnostics for every value, whatever options and match the
\* resolved type carries.
C10_AnyWithoutItems ==
    Validated =>
        \A e \in Entries :
            SingleValuePath(e.name) /\ TypeOf(e.name) = T("any") => ErrorsAbout(e.name) = {}

\* The value 1 given to an input of type any that carries the pattern ^[a-z]+$
\* and a list of options
C10_Witness ==
    /\ Validated
    /\ \E e \in Entries :
          /\ SingleValuePath(e.name)
          /\ TypeOf(e.name) = T("any")
          /\ Has(inputs[e.name], "match")
          /\ Has(inputs[e.name], "options")
          /\ e.value = StringValue(T("1"))
          /\ ~Matches(inputs[e.name].match, T("1"))
    /\ errors = <<>>

(***************************************************************************)
(* References to the outputs of steps.                                     *)
(***************************************************************************)
Checked == pc = "checked"

\* The occurrences of steps.<id>.outputs.<name> in the text of the block
References == OutputRefsFrom(block.text, 1)

\* The extracted steps of the block that carry the id
StepsWithId(id) ==
    {k \in 1..Len(block.steps) : Has(block.steps[k], "id") /\ block.steps[k].id = id}

\* The outputs the schema of the k-th extracted step declares
DeclaredOutputs(k) == Schemas[block.steps[k].actionReference].outputs

\* What a diagnostic lists after "Available outputs: "
Listed(declared) == IF declared = {} THEN T("none") ELSE declared

\* The references for which a diagnostic is due when the id stands for the last
\* extracted step that carries it
DueReferences ==
    SelectSeq(References,
              LAMBDA r : /\ StepsWithId(r.stepId) # {}
                         /\ r.outputName \notin DeclaredOutputs(Max(StepsWithId(r.stepId))))

\* C11 as stated: a reference steps.<id>.outputs.<name> is diagnosed if and only
\* if <id> is the id of an extracted step whose schema does not declare <name>.
C11_DiagnosedIffSomeStepLacksOutput ==
    Checked =>
        \A i \in 1..Len(References) :
            (\E j \in 1..Len(outputErrors) :
                /\ outputErrors[j].step = References[i].stepId
                /\ outputErrors[j].output = References[i].outputName)
            <=> (\E k \in StepsWithId(References[i].stepId) :
                    References[i].outputName \notin DeclaredOutputs(k))

\* C11: validateOutputReferences emits one diagnostic for each occurrence of
\* steps.<id>.outputs.<name> whose <id> is the id of an extracted step and whose
\* <name> is not an output of the schema of the last extracted step with that id,
\* and no other diagnostic; each diagnostic lists the declared outputs of that
\* schema, or none when it declares no output.
C11_DiagnosedIffLastStepLacksOutput ==
    Checked =>
        /\ Len(outputErrors) = Len(DueReferences)
        /\ \A j \in 1..Len(DueReferences) :
              /\ outputErrors[j].step = DueReferences[j].stepId
              /\ outputErrors[j].output = DueReferences[j].outputName
              /\ outputErrors[j].available =
                    Listed(DeclaredOutputs(Max(StepsWithId(DueReferences[j].stepId))))

\* A block with one reference to an unknown output, one reference to a declared
\* output and one reference whose id is the id of no extracted step
C11_Witness ==
    /\ Checked
    /\ Len(outputErrors) = 1
    /\ \E i \in 1..Len(References) : StepsWithId(References[i].stepId) = {}
    /\ \E i \in 1..Len(References) :
          /\ StepsWithId(References[i].stepId) # {}
          /\ \A k \in StepsWithId(References[i].stepId) :
                References[i].outputName \in DeclaredOutputs(k)

(***************************************************************************)
(* The content of the diagnostics.                                         *)
(***************************************************************************)
\* The message of a diagnostic interpolates the value it is about
ShowsValue(k) ==
    \/ Len(errors[k].shown) = 1
    \/ \A e \in Entries : e.name = errors[k].input => e.value.s = <<>>

\* C12: every diagnostic for a string or choice input, on the single-value and on
\* the multi-value path, contains the offending value (when it is not the empty
\* string), together with the option list (option mismatch) or the pattern
\* (pattern mismatch).
C12_DiagnosticShowsValue ==
    Validated =>
        \A k \in 1..Len(errors) :
            /\ errors[k].kind = "options" => ShowsValue(k) /\ errors[k].options # <<>>
            /\ errors[k].kind = "pattern" => ShowsValue(k) /\ errors[k].pattern # <<>>

(***************************************************************************)
(* The resolved types of a loaded schema.                                  *)
(***************************************************************************)
Loaded == pc = "loaded"

\* The sidecar file as validateSchemaDefinition returns it
SchemaDefinition == validateSchemaDefinition(sidecar).value

\* The inputs whose sidecar definition is an object whose type names a custom type
OverridingInputs ==
    {n \in DOMAIN sidecar.inputs \cap DOMAIN ActionInputs(manifest) :
        /\ ~Has(sidecar.inputs[n], "ref")
        /\ Has(sidecar.inputs[n], "type")
        /\ ToLowerCase(sidecar.inputs[n].type) \notin BASE_TYPES}

\* What loading stores of the custom type the definition of n names
InheritedType(n) ==
    ResolvedInput(ActionInputs(manifest)[n].required,
                  resolveTypeDefinition([ref |-> ToLowerCase(sidecar.inputs[n].type)],
                                        SchemaDefinition.types).value)

\* What loading stores of the fields the definition of n gives itself
OwnType(n) ==
    ResolvedInput(ActionInputs(manifest)[n].required,
                  OwnFields(SchemaDefinition.inputs[n],
                            resolveTypeDefinition(SchemaDefinition.inputs[n].items,
                                                  SchemaDefinition.types)))

\* The field f of the loaded input n is that of the descriptor from
SameField(n, f, from) ==
    /\ Has(inputs[n], f) <=> Has(from, f)
    /\ Has(from, f) => inputs[n][f] = from[f]

\* C13: when the type of a definition names a custom type, each of match, options,
\* separators and items that the definition gives replaces the inherited value
\* of the field, and each of them that the definition does not give keeps the
\* value resolved from the custom type.
C13_OverridesReplaceAbsentInherit ==
    Loaded =>
        \A n \in OverridingInputs :
            \A f \in {"match", "options", "separators", "items"} :
                IF Has(sidecar.inputs[n], f)
                THEN SameField(n, f, OwnType(n))
                ELSE SameField(n, f, InheritedType(n))

\* The canonical value of an option of the sidecar file, then its alternatives
OrderedSpellings(opt) ==
    IF Has(opt, "plain") THEN <<opt.plain>>
    ELSE <<opt.value>>
         \o (IF ~Has(opt, "alternatives") THEN <<>>
             ELSE IF Has(opt.alternatives, "arr")
             THEN [j \in 1..Len(opt.alternatives.arr) |->
                      convertToString(opt.alternatives.arr[j])]
             ELSE <<convertToString(opt.alternatives.one)>>)

\* The number of spellings of the options before the i-th
RECURSIVE Offset(_, _)
Offset(opts, i) ==
    IF i = 1 THEN 0 ELSE Offset(opts, i - 1) + Len(OrderedSpellings(opts[i - 1]))

\* flat lists the spellings of opts: option after option, and for each option its
\* value and then its alternatives; every element is a string
FlatListOf(flat, opts) ==
    /\ Len(flat) = Offset(opts, Len(opts) + 1)
    /\ \A i \in 1..Len(opts) :
          \A j \in 1..Len(OrderedSpellings(opts[i])) :
              flat[Offset(opts, i) + j] = OrderedSpellings(opts[i])[j]
    /\ \A k \in 1..Len(flat) : \A c \in 1..Len(flat[k]) : flat[k][c] \in STRING

\* The options the sidecar file declares for input n: those of its definition,
\* else those of the custom type it names
DeclaredOptions(n) ==
    IF ~Has(sidecar.inputs[n], "ref") /\ Has(sidecar.inputs[n], "options")
    THEN sidecar.inputs[n].options
    ELSE sidecar.types[IF Has(sidecar.inputs[n], "ref") THEN sidecar.inputs[n].ref
                       ELSE sidecar.inputs[n].type].options

\* C14: the resolved options are one ordered list in which the options appear in
\* declaration order, each canonical value immediately followed by the
\* alternatives of its option in their declared order, and every element is a
\* plain string.
C14_OptionsFlattenedInOrder ==
    Loaded =>
        \A n \in DOMAIN sidecar.inputs \cap DOMAIN inputs :
            /\ Has(inputs[n], "options") => FlatListOf(inputs[n].options, DeclaredOptions(n))
            /\ Has(inputs[n], "items") /\ Has(inputs[n].items, "options") =>
                  FlatListOf(inputs[n].items.options, sidecar.inputs[n].items.options)

\* Options of which one has alternatives and is followed by another option
C14_Witness ==
    /\ Loaded
    /\ \E n \in DOMAIN sidecar.inputs \cap DOMAIN inputs :
          /\ Has(inputs[n], "options")
          /\ \E i \in 1..(Len(DeclaredOptions(n)) - 1) :
                Len(OrderedSpellings(DeclaredOptions(n)[i])) > 1
          /\ Len(inputs[n].options) > Len(DeclaredOptions(n))

(***************************************************************************)
(* References to custom types.                                             *)
(***************************************************************************)
LoadDone == pc \in {"loaded", "failed"}

\* The names a definition and the custom types it reaches give as a type: its
\* bare reference or its type, that of its items, and those of the custom types
\* these name, through at most depth custom types
RECURSIVE ReachedNames(_, _, _)
ReachedNames(def, types, depth) ==
    LET direct == IF Has(def, "ref") THEN {def.ref}
                  ELSE {def.type}
                       \cup (IF Has(def, "items") THEN ReachedNames(def.items, types, depth)
                             ELSE {})
    IN  direct
        \cup (IF depth = 0 THEN {}
              ELSE UNION {ReachedNames(types[t], types, depth - 1) :
                             t \in direct \cap DOMAIN types})

\* The definition of input n reaches a name that is neither a base type nor a key
\* of the custom types
ReachesUnknownType(n) ==
    \E name \in ReachedNames(SchemaDefinition.inputs[n], SchemaDefinition.types,
                              Cardinality(DOMAIN SchemaDefinition.types)) :
        name \notin BASE_TYPES \cup DOMAIN SchemaDefinition.types

\* C15: resolving a definition fails with the unknown-type error, and yields no
\* descriptor, whenever its bare reference, its type, or the type of a custom
\* type reached from it names neither a base type nor a key of the custom types.
C15_UnknownTypeFails ==
    LoadDone /\ ~validateSchemaDefinition(sidecar).throws =>
        \A n \in DOMAIN sidecar.inputs \cap DOMAIN ActionInputs(manifest) :
            ReachesUnknownType(n) => pc = "failed" /\ failure = "Unknown custom type"

\* A definition reaches a name that is neither a base type nor a key of the
\* custom types
Unresolved(def) ==
    \E name \in ReachedNames(def, SchemaDefinition.types,
                              Cardinality(DOMAIN SchemaDefinition.types)) :
        name \notin BASE_TYPES \cup DOMAIN SchemaDefinition.types

\* The entries of the three sections of the sidecar file
SidecarEntries ==
    {SchemaDefinition.types[n] : n \in DOMAIN SchemaDefinition.types}
    \cup {SchemaDefinition.inputs[n] : n \in DOMAIN SchemaDefinition.inputs}
    \cup {SchemaDefinition.outputs[n] : n \in DOMAIN SchemaDefinition.outputs}

\* C16: loading fails whenever an entry of the types, the inputs or the outputs
\* of the sidecar file has a reference to a custom type that does not resolve.
C16_UnresolvedReferenceFailsLoad ==
    LoadDone /\ ~validateSchemaDefinition(sidecar).throws =>
        ((\E def \in SidecarEntries : Unresolved(def)) => pc = "failed")

(***************************************************************************)
(* The manifest and the sidecar file.                                      *)
(***************************************************************************)
\* C17: loadActionSchema throws when the sidecar file defines an input or an
\* output that the manifest does not declare.
C17_UndeclaredNameFailsLoad ==
    LoadDone =>
        ((\/ ~(DOMAIN Section(sidecar, "inputs") \subseteq DOMAIN ActionInputs(manifest))
          \/ ~(DOMAIN Section(sidecar, "outputs") \subseteq ActionOutputs(manifest)))
         => pc = "failed")

\* The parsed manifest is a mapping
IsMapping(action) == ~Has(action, "scalar") /\ ~Has(action, "sequence")

\* C18: loadActionSchema fails, and produces no ActionSchema, for every manifest
\* that parses to a scalar, to nothing or to a sequence.
C18_NonMappingFailsLoad ==
    LoadDone /\ ~IsMapping(manifest) => pc = "failed"

(***************************************************************************)
(* Invariants of the resolved types.                                       *)
(***************************************************************************)
\* No definition that input n reaches gives separators: not its own, and not a
\* custom type it names
GivesNoSeparators(n) ==
    /\ ~Has(sidecar.inputs[n], "separators")
    /\ \A t \in ReachedNames(SchemaDefinition.inputs[n], SchemaDefinition.types,
                              Cardinality(DOMAIN SchemaDefinition.types))
                \cap DOMAIN sidecar.types :
          ~Has(sidecar.types[t], "separators")

\* C19: in every resolved input type of a loaded schema, items being present
\* implies that separators is a non-empty list, and the list is the single
\* separator newline when the definition gave no separators.
C19_ItemsImplySeparators ==
    Loaded =>
        \A n \in DOMAIN inputs \cap DOMAIN Section(sidecar, "inputs") :
            Has(inputs[n], "items") =>
                /\ Has(inputs[n], "separators")
                /\ Len(inputs[n].separators) > 0
                /\ GivesNoSeparators(n) => inputs[n].separators = <<newline>>

\* C20: in every resolved type of a loaded schema, and in its items, options is
\* present only when the resolved type is choice.
C20_OptionsOnlyForChoice ==
    Loaded =>
        \A n \in DOMAIN inputs \cap DOMAIN Section(sidecar, "inputs") :
            /\ Has(inputs[n], "options") => inputs[n].type = T("choice")
            /\ Has(inputs[n], "items") /\ Has(inputs[n].items, "options") =>
                  inputs[n].items.type = T("choice")

(***************************************************************************)
(* C21  normalizeValue and the literal placeholders                        *)
(***************************************************************************)
\* The trimmed contents of the placeholders of s, read from left to right from `from`:
\* a placeholder runs from `${{` to the first `}}` after it on the line
RECURSIVE PlaceholderContents(_, _)
PlaceholderContents(s, from) ==
    LET starts == ExprStarts(s, from)
    IN  IF starts = {} THEN {}
        ELSE LET i == Min(starts)
                 j == Min(ExprEnds(s, i))
             IN  {Trim(SubSeq(s, i + 3, j - 1))} \cup PlaceholderContents(s, j + 2)

\* A single-quoted string: the quotes between the enclosing pair come in runs of even length
SingleQuotedString(e) ==
    /\ Len(e) >= 2 /\ e[1] = "'" /\ e[Len(e)] = "'"
    /\ LET inner == SubSeq(e, 2, Len(e) - 1)
           quotes == {i \in 1..Len(inner) : inner[i] = "'"}
           RunStart(i) == Min({k \in 1..i : \A m \in k..i : m \in quotes})
           RunEnd_(i) == Min({k \in i..Len(inner) : \A m \in i..k : m \in quotes /\
                                (k = Len(inner) \/ (k + 1) \notin quotes)})
       IN  \A i \in quotes : (RunEnd_(i) - RunStart(i) + 1) % 2 = 0

DigitString(d) == Len(d) >= 1 /\ \A i \in 1..Len(d) : d[i] \in Digits

\* digits, digits with a fraction, digits with a point, or a point with digits
Mantissa(m) ==
    \/ DigitString(m)
    \/ \E p \in 1..Len(m) :
          /\ m[p] = "."
          /\ Len(m) >= 2
          /\ p > 1 => DigitString(SubSeq(m, 1, p - 1))
          /\ p < Len(m) => DigitString(SubSeq(m, p + 1, Len(m)))

\* e or E, a sign or none, digits
Exponent(x) ==
    /\ Len(x) >= 2 /\ x[1] \in {"e", "E"}
    /\ \/ DigitString(Tail(x))
       \/ Len(x) >= 3 /\ x[2] \in {"+", "-"} /\ DigitString(SubSeq(x, 3, Len(x)))

\* A signed decimal, hex, octal or exponential number
SignedNumber(e) ==
    \E sign \in {0, 1} :
        /\ sign = 1 => (Len(e) >= 1 /\ e[1] \in {"+", "-"})
        /\ LET b == SubSeq(e, sign + 1, Len(e))
           IN  \/ /\ Len(b) >= 3 /\ b[1] = "0" /\ b[2] = "x"
                  /\ \A i \in 3..Len(b) : b[i] \in HexDigits
               \/ /\ Len(b) >= 3 /\ b[1] = "0" /\ b[2] = "o"
                  /\ \A i \in 3..Len(b) : b[i] \in OctalDigits
               \/ Mantissa(b)
               \/ \E k \in 1..(Len(b) - 1) :
                     Mantissa(SubSeq(b, 1, k)) /\ Exponent(SubSeq(b, k + 1, Len(b)))

Keywords == {T("true"), T("false"), T("null"), T("NaN"), T("Infinity")}

CompileTimeLiteral(e) == SingleQuotedString(e) \/ SignedNumber(e) \/ e \in Keywords

NormalizeValueCalled == call.fn = "normalizeValue" /\ call.value.t # "null"

C21_WitnessLiteral ==
    /\ NormalizeValueCalled
    /\ call.value.s = T("${{ 1 }}${{ 'it''s' }}")
    /\ returned = NotNull(T("${{ 1 }}${{ 'it''s' }}"))

(***************************************************************************)
(* C22  A quoted value followed by a comment                               *)
(***************************************************************************)
\* C22: normalizeValue of a quoted value followed by a comment, as in `'v1' # note`,
\* returns what normalizeValue returns for the value without quotes and comment, `v1`
C22_QuotedCommentedAsPlain ==
    \A q \in QuotedThenCommented :
        (call.fn = "normalizeValue" /\ call.value = StringValue(q.written)) =>
            returned = normalizeValue(StringValue(q.plain))

\* What normalizeValue returns instead: the quoted value with its quotes, as for `'v1'`
\* when the comment itself ends in no quote
C22_QuotesKept ==
    \A q \in QuotedThenCommented :
        (call.fn = "normalizeValue" /\ call.value = StringValue(q.written)
            /\ q.written # T("'v1' # it's")) =>
            \E quote \in {"'", "\""} : returned = NotNull(<<quote>> \o q.plain \o <<quote>>)

(***************************************************************************)
(* C23  Splitting an item again                                            *)
(***************************************************************************)
SplitMultiValueCalled == call.fn = "splitMultiValue" /\ ~returned.isNull

SplitsToItself(item, separators) ==
    splitMultiValue(StringValue(item), separators) = [isNull |-> FALSE, items |-> <<item>>]

\* C23: each item that splitMultiValue(value, separators) returns is split, with the
\* same separators, into the list of that one item
C23_ItemSplitsToItself ==
    SplitMultiValueCalled =>
        \A i \in 1..Len(returned.items) : SplitsToItself(returned.items[i], call.separators)

\* The items for which it holds: those that removeEnclosingQuotes leaves as they are
C23_UnquotedItemSplitsToItself ==
    SplitMultiValueCalled =>
        \A i \in 1..Len(returned.items) :
            removeEnclosingQuotes(returned.items[i]) = returned.items[i] =>
                SplitsToItself(returned.items[i], call.separators)

(***************************************************************************)
(* C24  The code blocks of a document and their start lines                *)
(***************************************************************************)
ExtractCalled == call.fn = "extractYamlCodeBlocks"

\* The lines of the document, line breaks being \n or \r\n
SourceLines ==
    LET lines == SplitOn(call.markdownContent, {"\n"})
    IN  [i \in 1..Len(lines) |->
            IF lines[i] # <<>> /\ lines[i][Len(lines[i])] = "\r" /\ i < Len(lines)
            THEN SubSeq(lines[i], 1, Len(lines[i]) - 1) ELSE lines[i]]

OpensFence(line) == Len(line) >= 3 /\ SubSeq(line, 1, 3) = Fence

InfoString(line) == Trim(SliceFrom(line, 3))

\* The fenced blocks of the lines from `from` on: a line that begins with a fence opens
\* a block, the next line that is a fence alone closes it
RECURSIVE FencedBlocksFrom(_, _)
FencedBlocksFrom(lines, from) ==
    LET opens == {i \in from..Len(lines) : OpensFence(lines[i])}
    IN  IF opens = {} THEN <<>>
        ELSE LET open == Min(opens)
                 closes == {j \in (open + 1)..Len(lines) : Trim(lines[j]) = Fence}
             IN  IF closes = {} THEN <<>>
                 ELSE <<[info |-> InfoString(lines[open]), open |-> open,
                         close |-> Min(closes)]>>
                         \o FencedBlocksFrom(lines, Min(closes) + 1)

YamlFencedBlocks ==
    LET all == FencedBlocksFrom(SourceLines, 1)
    IN  FilterIdx(all, {k \in 1..Len(all) : ToLowerCase(all[k].info) \in {T("yaml"), T("yml")}})

\* The source text from the start of line n on
SourceFromLine(n) ==
    IF n > Len(SourceLines) THEN <<>>
    ELSE Join(SubSeq(SourceLines, n, Len(SourceLines)), <<"\n">>)

StartsWith(s, prefix) == Len(prefix) <= Len(s) /\ SubSeq(s, 1, Len(prefix)) = prefix

\* The content returned for block k is in the source at the line given as its start
StartLineIsFirstLineOfContent(k) ==
    StartsWith(SourceFromLine(returned[k].contentStartLine), returned[k].text)

OneBlockPerYamlFence == Len(returned) = Len(YamlFencedBlocks)

\* C24: extractYamlCodeBlocks returns one block for each fenced block tagged yaml or yml
\* in any case, and the start line of each is the line number, counted from 1 in the
\* source text, of the first line of the content returned for it
C24_BlocksAndStartLines ==
    ExtractCalled =>
        /\ OneBlockPerYamlFence
        /\ \A k \in 1..Len(returned) : StartLineIsFirstLineOfContent(k)

\* The two halves of it
C24_OneBlockPerYamlFence == ExtractCalled => OneBlockPerYamlFence

C24_StartLines ==
    ExtractCalled => \A k \in 1..Len(returned) : StartLineIsFirstLineOfContent(k)

(***************************************************************************)
(* C25  The tolerant scanner and the # of a value                          *)
(***************************************************************************)
TolerantCalled == call.fn = "findReferencedStepsTolerant"

BlockLine(n) == SplitOn(call.blockText, {"\n"})[n]

\* The entries whose quoted value holds a #, and those with a comment outside quotes
QuotedWithHash == {T("    x: \"a # b\""), T("    x: 'a#b'  ")}

CommentedOutsideQuotes == {T("    y: 'v' # note"), T("    y: a # c")}

HoldsHash(s) == \E i \in 1..Len(s) : s[i] = "#"

\* The value and the line of the entries of the steps returned
ReturnedEntries ==
    UNION {{[value |-> returned[n].with[k], line |-> BlockLine(returned[n].withLines[k])] :
               k \in DOMAIN returned[n].with} : n \in 1..Len(returned)}

\* C25: the tolerant scanner keeps a # that is inside a single- or double-quoted value
\* of a `with` entry, and removes a trailing # comment that is outside quotes
C25_HashKeptInQuotesCommentRemoved ==
    TolerantCalled =>
        \A e \in ReturnedEntries :
            /\ e.line \in QuotedWithHash => HoldsHash(e.value.s)
            /\ e.line \in CommentedOutsideQuotes => ~HoldsHash(e.value.s)

\* The half of it that holds: the comment outside quotes is removed
C25_CommentOutsideQuotesRemoved ==
    TolerantCalled =>
        \A e \in ReturnedEntries :
            e.line \in CommentedOutsideQuotes => e.value.s \in {T("'v'"), T("a")}

\* What becomes of the quoted values with a #
C25_QuotedHashCut ==
    TolerantCalled =>
        \A e \in ReturnedEntries : e.line \in QuotedWithHash => e.value.s = T("a")

(***************************************************************************)
(* C28  The line kept for a `with` entry by the tolerant scanner           *)
(***************************************************************************)
BlockLineCount == Len(SplitOn(call.blockText, {"\n"}))

\* The line of the block on which the entry of a key is written: the last one, after
\* `with:`, that begins with the key and a colon
KeyLine(key) ==
    Max({i \in (Len(StepLines) + 1)..BlockLineCount :
            KeyMatch(BlockLine(i)).matched /\ KeyMatch(BlockLine(i)).key = key})

\* C28: the line the tolerant scanner keeps for a `with` entry is the line of the
\* block, counted from 1, on which the key of the entry is written, also when the
\* value of the entry is a block scalar, | or >, on the lines that follow
C28_LineOfEntryIsLineOfKey ==
    TolerantCalled =>
        \A n \in 1..Len(returned) : \A key \in DOMAIN returned[n].withLines :
            returned[n].withLines[key] = KeyLine(key)

\* It is so for the entries whose value is on the line of the key
C28_LineOfKeyUnlessBlockScalar ==
    TolerantCalled =>
        \A n \in 1..Len(returned) : \A key \in DOMAIN returned[n].withLines :
            ~MultilineMatch(BlockLine(KeyLine(key))) =>
                returned[n].withLines[key] = KeyLine(key)

\* For a block scalar the line kept is the last line of the value that is not blank
C28_LastLineOfBlockScalar ==
    TolerantCalled =>
        \A n \in 1..Len(returned) : \A key \in DOMAIN returned[n].withLines :
            MultilineMatch(BlockLine(KeyLine(key))) =>
                returned[n].withLines[key] =
                    Max({KeyLine(key)} \cup
                        {i \in (KeyLine(key) + 1)..BlockLineCount :
                            /\ ~IsBlank(BlockLine(i))
                            /\ \A j \in (KeyLine(key) + 1)..i :
                                  IsBlank(BlockLine(j)) \/ countIndent(BlockLine(j)) > 4})

(***************************************************************************)
(* C26  Validating the same step twice                                     *)
(***************************************************************************)
\* C26: validation does not change the loaded schema: the step just validated, when
\* validated once more against the same schema, gets the same diagnostics, whatever
\* pattern the sidecar gives, /pattern/flags included
C26_SameDiagnosticsTwice ==
    Validated => validateStep(step, inputs, blockStartLine).errors = errors

\* It is so when no pattern of the schema carries the flag g or y
C26_SameDiagnosticsWithoutStickyPatterns ==
    (Validated /\ \A n \in DOMAIN inputs :
        /\ Has(inputs[n], "match") => ~(HasFlag(inputs[n].match, "g") \/ HasFlag(inputs[n].match, "y"))
        /\ (Has(inputs[n], "items") /\ Has(inputs[n].items, "match")) =>
              ~(HasFlag(inputs[n].items.match, "g") \/ HasFlag(inputs[n].items.match, "y")))
    => validateStep(step, inputs, blockStartLine).errors = errors

(***************************************************************************)
(* C27  The lines of the diagnostics                                       *)
(***************************************************************************)
\* The lines of the block in which the step is written: the line of `uses`, the line
\* of `with:` and one line for each entry
BlockLinesOfStep == 2 + Len(step.with)

InsideBlock(line) ==
    blockStartLine <= line /\ line <= blockStartLine + BlockLinesOfStep - 1

\* C27: the line of every diagnostic of validateStep for a step found in a block lies
\* inside the block as it stands in the document, from blockStartLine to
\* blockStartLine + (lines of the block) - 1, for a step of the strict parse and for
\* a step of the tolerant scanner
C27_DiagnosticLineInsideBlock ==
    Validated => \A i \in 1..Len(errors) : InsideBlock(errors[i].line)

\* It is so for the steps of the strict parse
C27_StrictLineInsideBlock ==
    (Validated /\ ~Has(step, "withLines")) =>
        \A i \in 1..Len(errors) : InsideBlock(errors[i].line)

\* For a step of the tolerant scanner the line is the line in the block of an entry,
\* not a line of the document
C27_TolerantLineIsLineInBlock ==
    (Validated /\ Has(step, "withLines")) =>
        \A i \in 1..Len(errors) : errors[i].line \in 3..BlockLinesOfStep

(***************************************************************************)
(* C29  A definition that overrides the items of a custom type only        *)
(***************************************************************************)
\* The inputs whose definition names a custom type that has separators and gives
\* items and none of match, options and separators
ItemsOnlyOverrides ==
    {n \in OverridingInputs :
        /\ Has(sidecar.inputs[n], "items")
        /\ ~Has(sidecar.inputs[n], "separators")
        /\ ~Has(sidecar.inputs[n], "match")
        /\ ~Has(sidecar.inputs[n], "options")
        /\ Has(InheritedType(n), "separators")}

\* C29: when the definition of an input names a custom type that declares separators
\* and overrides only items, the separators of the loaded input are those inherited
\* from the custom type
C29_ItemsOnlyOverrideInheritsSeparators ==
    Loaded =>
        \A n \in ItemsOnlyOverrides \cap DOMAIN inputs :
            /\ Has(inputs[n], "separators")
            /\ inputs[n].separators = InheritedType(n).separators

\* The separators the loaded input has instead: newline alone
C29_ItemsOnlyOverrideGetsNewline ==
    Loaded =>
        \A n \in ItemsOnlyOverrides \cap DOMAIN inputs :
            /\ Has(inputs[n], "separators")
            /\ inputs[n].separators = <<newline>>

(***************************************************************************)
(* C30  A custom type named by a bare string or by a type field            *)
(***************************************************************************)
\* The inputs whose definition gives a type field alone, naming a key of the types map
TypeFieldReferences ==
    {n \in DOMAIN sidecar.inputs \cap DOMAIN ActionInputs(manifest) :
        /\ DOMAIN sidecar.inputs[n] = {"type"}
        /\ sidecar.inputs[n].type \in DOMAIN sidecar.types}

\* The load with the definition of n written as the bare name of the type
ByBareString(n) ==
    loadActionSchema(manifest,
        [sidecar EXCEPT !.inputs = (n :> [ref |-> sidecar.inputs[n].type]) @@ sidecar.inputs])

SameAsByBareString(n) ==
    IF ByBareString(n).throws THEN pc = "failed"
    ELSE pc = "loaded" /\ inputs[n] = ByBareString(n).value.inputs[n]

\* C30: a custom type of the types map resolves to the same descriptor when an input
\* names it through the type field of an object as when it names it by a bare string,
\* whatever its name, upper-case letters included
C30_TypeFieldAsBareString ==
    LoadDone => \A n \in TypeFieldReferences : SameAsByBareString(n)

\* It is so when the name of the type has no upper-case letter
C30_LowerCaseTypeFieldAsBareString ==
    LoadDone =>
        \A n \in TypeFieldReferences :
            ToLowerCase(sidecar.inputs[n].type) = sidecar.inputs[n].type =>
                SameAsByBareString(n)

====
